---- MODULE Spec2Model ----
(***************************************************************************)
(* Model of the Sudoku core of mr-sudoku (src/src/core/game.py):           *)
(* BoardValidator, DifficultyManager, CellRemovalStrategy, GameEngine's    *)
(* validation entry points and BacktrackingSudokuGenerator; of the         *)
(* GameController and its managers (core/controller.py), the UIManager's   *)
(* handlers (core/ui_components.py), the metrics service, main and         *)
(* GameStats.                                                              *)
(*                                                                         *)
(* The specifications of the module:                                       *)
(*   Spec          one call of BacktrackingSudokuGenerator.generate        *)
(*   FairSpec      Spec with the call running to completion                *)
(*   SpecValidator BoardValidator / GameEngine.can_input applied to        *)
(*                 bounded grids                                           *)
(*   SpecFailure   one call of generate with self.board_validator either   *)
(*                 the BoardValidator or a replacement that rejects more   *)
(*   SpecCalls     BoardManager.generate_board called repeatedly on one    *)
(*                 generator, the random module seeded and reseeded        *)
(*   FairCalls     SpecCalls with the calls running to completion         *)
(*   SpecPlay      BoardManager.generate_board called repeatedly, the      *)
(*                 player writing cells through BoardManager.set_value     *)
(*   SpecThreads   two threads calling generate, with and without          *)
(*                 synchronisation                                         *)
(*   SpecUndo      generate called repeatedly, with the history of the     *)
(*                 search: what every _solve_board invocation found at     *)
(*                 its entry                                               *)
(*   SpecController the public methods of a GameController called in any   *)
(*                 order                                                   *)
(*   SpecSession   main from setup_metrics to the end of the main loop,    *)
(*                 the player clicking tiles and numbers and pressing keys *)
(*   SpecGame      the games of a session without metrics service          *)
(*   SpecNotes     SpecGame with UIManager._on_notes_mode switching the    *)
(*                 notes mode                                              *)
(*   SpecStats     GameStats.update_stats called repeatedly                *)
(***************************************************************************)
EXTENDS Integers, Sequences, FiniteSets, TLC

VARIABLES
    pc,               \* position inside generate
    difficulty,       \* generate's argument, a sequence of characters
    board,            \* self.board, the scratch grid
    stack,            \* active _solve_board invocations, innermost last
    solve_result,     \* value returned by the outermost _solve_board
    backtrack_count,  \* self.backtrack_count
    shuffles,         \* number of random.shuffle calls made so far
    solution,         \* self.solution
    puzzle_board,     \* local puzzle_board of generate / board of remove_cells
    level,            \* local difficulty of remove_cells (enum member)
    cells_to_keep,    \* local of remove_cells
    cells_to_remove,  \* local of remove_cells
    removed_count,    \* local of remove_cells
    attempts,         \* local of remove_cells
    seed,             \* state of the random source used for the cell picks
    warned,           \* the shortfall warning of remove_cells was logged
    result,           \* what generate returned: "none", "pair" or "null"
    board_validator,  \* self.board_validator: the validator implementation
    random_state,     \* state of the random module: 0 seeded by the system,
                      \* otherwise the value last given to random.seed
    calls,            \* generate calls the calling thread has made
    session_calls,    \* generate calls a caller makes in all
    refs,             \* identity of the list objects self.board,
                      \* self.solution and puzzle_board are bound to (0: None)
    allocated,        \* number of grid objects created so far
    returned,         \* history: what every finished generate call returned
    manager,          \* BoardManager: _board, _solution, set_value calls made
    writers,          \* history: the thread that placed each value of the
                      \* grids self.board and self.solution
    running,          \* the thread that is running
    parked,           \* the context of the thread that is not running
    sync,             \* how the callers of generate are synchronised
    preemptions,      \* times a thread was interrupted inside generate
    vgrid,            \* validator: the grid handed to the validator
    vwrites,          \* validator: number of cells written into vgrid
    vcall,            \* validator: the last call and what it returned
    trace,            \* history of the search: the grid and the counters at
                      \* the entry of every active _solve_board invocation,
                      \* the placements made, the value backtrack_count had
                      \* when each call's search started
    app,              \* main.py: position of main, game ids handed out
    metrics,          \* monitoring.metrics: the module's metrics_service,
                      \* its active_games gauge and _game_start_times
    ctl,              \* GameController with its TimerManager and
                      \* NotesManager: the fields, and the position inside
                      \* start_game
    bm,               \* BoardManager: _board, _solution, _counts
    ui,               \* UIManager with its SudokuBoard and NumberPanel
    reply,            \* the last call made on the controller: its name,
                      \* its argument, the value it returned
    stats,            \* GameStats.stats: the statistics of each difficulty
    results           \* history: the outcomes passed to update_stats, in
                      \* the order of the calls, for each difficulty

genVars == <<pc, difficulty, board, stack, solve_result, backtrack_count,
             shuffles, solution, puzzle_board, level, cells_to_keep,
             cells_to_remove, removed_count, attempts, seed, warned, result>>

valVars == <<vgrid, vwrites, vcall>>

callVars == <<board_validator, random_state, calls, session_calls, refs,
              allocated, returned, manager>>

thrVars == <<writers, running, parked, sync, preemptions>>

histVars == <<trace>>

appVars == <<app, metrics, ctl, bm, ui, reply>>

statVars == <<stats, results>>

coreVars == <<genVars, valVars, callVars, thrVars, histVars, statVars>>

vars == <<genVars, valVars, callVars, thrVars, histVars, appVars, statVars>>

----------------------------------------------------------------------------
(* Program constants *)

\* range(9): rows, columns and candidate values 1..9
GridSize == 9

\* (row // 3) * 3
BoxSize == 3

\* cells_to_remove = 81 - cells_to_keep
TotalCells == 81

\* max_attempts = 200
max_attempts == 200

Idx == 0 .. (GridSize - 1)

Values == 1 .. GridSize

\* [[0 for _ in range(9)] for _ in range(9)]
EmptyBoard == [r \in Idx |-> [c \in Idx |-> 0]]

\* the least element of a set of numbers
SetMin(S) == CHOOSE x \in S : \A y \in S : x <= y

\* Python's None where a grid is expected
NoneBoard == [r \in Idx |-> [c \in Idx |-> -1]]

\* FixedBoardSudokuGenerator.solved_board
solved_board ==
    LET rows == << <<5, 3, 4, 6, 7, 8, 9, 1, 2>>,
                   <<6, 7, 2, 1, 9, 5, 3, 4, 8>>,
                   <<1, 9, 8, 3, 4, 2, 5, 6, 7>>,
                   <<8, 5, 9, 7, 6, 1, 4, 2, 3>>,
                   <<4, 2, 6, 8, 5, 3, 7, 9, 1>>,
                   <<7, 1, 3, 9, 2, 4, 8, 5, 6>>,
                   <<9, 6, 1, 5, 3, 7, 2, 8, 4>>,
                   <<2, 8, 7, 4, 1, 9, 6, 3, 5>>,
                   <<3, 4, 5, 2, 8, 6, 1, 7, 9>> >>
    IN [r \in Idx |-> [c \in Idx |-> rows[r + 1][c + 1]]]

----------------------------------------------------------------------------
(* Bounds of the model *)

\* number of leading random.shuffle calls whose outcome is left open
MaxFreeShuffles == 2

\* number of cell writes that build the grids handed to the validator
MaxWrites == 1

\* number of generate calls made one after the other on one generator
MaxCalls == 2

\* number of BoardManager.set_value calls the player makes
MaxSetValues == 1

\* number of times a thread is interrupted inside generate
MaxPreemptions == 1

\* a thread is interrupted inside _solve_board only while at most this many
\* invocations are active
MaxPreemptDepth == 2

----------------------------------------------------------------------------
(* BoardValidator *)

is_valid_position_ignoring_box(b, row, col, num) ==
    IF \E j \in Idx : b[row][j] = num
    THEN FALSE
    ELSE IF \E i \in Idx : b[i][col] = num
         THEN FALSE
         ELSE TRUE

is_valid_position_unscaled_box(b, row, col, num) ==
    IF \E j \in Idx : b[row][j] = num
    THEN FALSE
    ELSE IF \E i \in Idx : b[i][col] = num
         THEN FALSE
         ELSE LET box_row == row \div BoxSize
                  box_col == col \div BoxSize
              IN IF \E i \in box_row .. (box_row + BoxSize - 1),
                       j \in box_col .. (box_col + BoxSize - 1) : b[i][j] = num
                 THEN FALSE
                 ELSE TRUE

is_valid_position_needs_empty(b, row, col, num) ==
    IF b[row][col] # 0
    THEN FALSE
    ELSE IF \E j \in Idx : b[row][j] = num
         THEN FALSE
         ELSE IF \E i \in Idx : b[i][col] = num
              THEN FALSE
              ELSE LET box_row == (row \div BoxSize) * BoxSize
                       box_col == (col \div BoxSize) * BoxSize
                   IN IF \E i \in box_row .. (box_row + BoxSize - 1),
                            j \in box_col .. (box_col + BoxSize - 1) : b[i][j] = num
                      THEN FALSE
                      ELSE TRUE

is_valid_position_rejects_all(b, row, col, num) ==
    FALSE

\* a validator that forgets the row test
is_valid_position_ignoring_row(b, row, col, num) ==
    /\ \A i \in Idx : b[i][col] # num
    /\ \A i \in ((row \div BoxSize) * BoxSize) .. ((row \div BoxSize) * BoxSize + BoxSize - 1),
          j \in ((col \div BoxSize) * BoxSize) .. ((col \div BoxSize) * BoxSize + BoxSize - 1) :
          b[i][j] # num

is_valid_position(b, row, col, num) ==
    IF \E j \in Idx : b[row][j] = num
    THEN FALSE
    ELSE IF \E i \in Idx : b[i][col] = num
         THEN FALSE
         ELSE LET box_row == (row \div BoxSize) * BoxSize
                  box_col == (col \div BoxSize) * BoxSize
              IN IF \E i \in box_row .. (box_row + BoxSize - 1),
                       j \in box_col .. (box_col + BoxSize - 1) : b[i][j] = num
                 THEN FALSE
                 ELSE TRUE

\* what self.board_validator can be bound to: the BoardValidator that
\* __init__ creates, or an object put in its place that accepts nothing, or
\* one that accepts what BoardValidator accepts except in the cell BlockedCell
ValidatorImpls == {"BoardValidator", "RejectsAll", "BlocksCell"}

BlockedCell == <<0, 2>>

\* self.board_validator.is_valid_position(board, row, col, num)
validator_accepts(impl, b, row, col, num) ==
    CASE impl = "BoardValidator" -> is_valid_position(b, row, col, num)
      [] impl = "RejectsAll"     -> FALSE
      [] OTHER                   -> /\ <<row, col>> # BlockedCell
                                    /\ is_valid_position(b, row, col, num)

can_place_number_skips_empty_check(b, row, col, value) ==
    is_valid_position(b, row, col, value)

can_place_number(b, row, col, value) ==
    IF b[row][col] # 0
    THEN FALSE
    ELSE is_valid_position(b, row, col, value)

\* GameEngine.can_input
can_input(b, row, col, value) ==
    can_place_number(b, row, col, value)

\* a validator that tries the value out in the cell and leaves it there
board_after_validation_places(b, row, col, value) ==
    [b EXCEPT ![row][col] = value]

\* the board argument as is_valid_position, can_place_number and can_input
\* leave it: none of them assigns to board or to a field of the validator
board_after_validation(b, row, col, value) ==
    b

----------------------------------------------------------------------------
(* SpecValidator: the validator applied to bounded grids *)

\* cells at which the validator is asked: a corner, the centre, the last
\* cell, and a cell off the diagonal
ProbeCells == { <<0, 0>>, <<4, 4>>, <<8, 8>>, <<1, 7>> }

\* values written into a grid: empty, the smallest and the largest value
WriteValues == {0, 1, GridSize}

NoCall ==
    [called |-> FALSE, row |-> 0, col |-> 0, value |-> 1,
     valid |-> FALSE, place |-> FALSE, input |-> FALSE,
     variants |-> [x \in 0 .. GridSize |-> FALSE],
     valid_again |-> FALSE, place_again |-> FALSE,
     before |-> EmptyBoard, grid |-> EmptyBoard]

InitValidator ==
    /\ vgrid \in {EmptyBoard, solved_board}
    /\ vwrites = 0
    /\ vcall = NoCall

\* the caller prepares the grid: one cell is assigned
WriteCell(row, col, value) ==
    /\ ~vcall.called
    /\ vwrites < MaxWrites
    /\ vgrid' = [vgrid EXCEPT ![row][col] = value]
    /\ vwrites' = vwrites + 1
    /\ UNCHANGED <<vcall, genVars, callVars, thrVars, histVars,
                   appVars, statVars>>

\* one call each of is_valid_position, can_place_number and can_input on the
\* same arguments, then is_valid_position and can_place_number once more on
\* the board the first calls left; variants[x] is what is_valid_position
\* returns on the grid that differs from vgrid only in holding x at
\* (row, col); before is the grid as passed in, grid the grid as it is after
\* the calls
CheckCell(row, col, value) ==
    /\ ~vcall.called
    /\ LET after == board_after_validation(vgrid, row, col, value)
       IN /\ vcall' = [called |-> TRUE, row |-> row, col |-> col,
                       value |-> value,
                       valid |-> is_valid_position(vgrid, row, col, value),
                       place |-> can_place_number(vgrid, row, col, value),
                       input |-> can_input(vgrid, row, col, value),
                       variants |-> [x \in 0 .. GridSize |->
                           is_valid_position([vgrid EXCEPT ![row][col] = x],
                                             row, col, value)],
                       valid_again |-> is_valid_position(after, row, col, value),
                       place_again |-> can_place_number(after, row, col, value),
                       before |-> vgrid,
                       grid  |-> after]
          /\ vgrid' = after
    /\ UNCHANGED <<vwrites, genVars, callVars, thrVars, histVars,
                   appVars, statVars>>

NextValidator ==
    \/ \E row \in Idx, col \in Idx, value \in WriteValues :
           WriteCell(row, col, value)
    \/ \E cell \in ProbeCells, value \in Values :
           CheckCell(cell[1], cell[2], value)

----------------------------------------------------------------------------
(* Difficulty (core/difficulty.py) and DifficultyManager *)

UpperCase == <<"A", "B", "C", "D", "E", "F", "G", "H", "I", "J", "K", "L", "M",
               "N", "O", "P", "Q", "R", "S", "T", "U", "V", "W", "X", "Y", "Z">>

LowerCase == <<"a", "b", "c", "d", "e", "f", "g", "h", "i", "j", "k", "l", "m",
               "n", "o", "p", "q", "r", "s", "t", "u", "v", "w", "x", "y", "z">>

\* one character folded to lower case
ToLowerChar(ch) ==
    IF \E k \in DOMAIN UpperCase : UpperCase[k] = ch
    THEN LowerCase[CHOOSE k \in DOMAIN UpperCase : UpperCase[k] = ch]
    ELSE ch

\* a string folded to lower case
ToLower(str) == [k \in DOMAIN str |-> ToLowerChar(str[k])]

\* the members of the Difficulty enum and their values
DifficultyValue ==
    [EASY   |-> <<"E", "a", "s", "y">>,
     MEDIUM |-> <<"M", "e", "d", "i", "u", "m">>,
     HARD   |-> <<"H", "a", "r", "d">>,
     EXPERT |-> <<"E", "x", "p", "e", "r", "t">>]

DifficultyMembers == DOMAIN DifficultyValue

\* Difficulty(str) with the value matched exactly; "ValueError" when no
\* member has that value
DifficultyExactMatch(str) ==
    IF \E m \in DifficultyMembers : DifficultyValue[m] = str
    THEN CHOOSE m \in DifficultyMembers : DifficultyValue[m] = str
    ELSE "ValueError"

\* Difficulty(str): the member whose value matches str without regard to
\* case; "ValueError" when there is none
DifficultyOf(str) ==
    IF \E m \in DifficultyMembers : ToLower(DifficultyValue[m]) = ToLower(str)
    THEN CHOOSE m \in DifficultyMembers :
             ToLower(DifficultyValue[m]) = ToLower(str)
    ELSE "ValueError"

\* remove_cells falling back to Easy instead of Medium
ResolveDifficulty_fallback_easy(str) ==
    IF DifficultyOf(str) = "ValueError" THEN "EASY" ELSE DifficultyOf(str)

\* remove_cells: try Difficulty(difficulty_str) except ValueError: MEDIUM
ResolveDifficulty(str) ==
    IF DifficultyOf(str) = "ValueError" THEN "MEDIUM" ELSE DifficultyOf(str)

\* get_cells_to_keep with the Hard range reaching one cell too low
KeepRange_hard_low(d) ==
    CASE d = "EASY"   -> 40 .. 45
      [] d = "MEDIUM" -> 32 .. 39
      [] d = "HARD"   -> 24 .. 31
      [] d = "EXPERT" -> 17 .. 24
      [] OTHER        -> 32 .. 39

\* get_cells_to_keep without its Expert branch
KeepRange_no_expert(d) ==
    CASE d = "EASY"   -> 40 .. 45
      [] d = "MEDIUM" -> 32 .. 39
      [] d = "HARD"   -> 25 .. 31
      [] OTHER        -> 32 .. 39

\* get_cells_to_keep: the values random.randint can return for a level
KeepRange(d) ==
    CASE d = "EASY"   -> 40 .. 45
      [] d = "MEDIUM" -> 32 .. 39
      [] d = "HARD"   -> 25 .. 31
      [] d = "EXPERT" -> 17 .. 24
      [] OTHER        -> 32 .. 39

\* the difficulty strings generate is called with
DifficultyInputs ==
    { DifficultyValue["EASY"], DifficultyValue["MEDIUM"],
      DifficultyValue["HARD"], DifficultyValue["EXPERT"],
      <<"e", "x", "p", "e", "r", "t">>,
      <<"N", "i", "g", "h", "t", "m", "a", "r", "e">> }

----------------------------------------------------------------------------
(* The random source *)

\* orders random.shuffle leaves list(range(1, 10)) in
ShuffleOrders ==
    << <<1, 2, 3, 4, 5, 6, 7, 8, 9>>,
       <<9, 8, 7, 6, 5, 4, 3, 2, 1>>,
       <<5, 3, 4, 6, 7, 8, 9, 1, 2>> >>

\* outcomes of the n-th random.shuffle call (n counted from 0): any of the
\* orders for the first MaxFreeShuffles calls, a cycle through them after
ShuffleOutcomes(n) ==
    IF n < MaxFreeShuffles
    THEN {ShuffleOrders[k] : k \in DOMAIN ShuffleOrders}
    ELSE {ShuffleOrders[(n % Len(ShuffleOrders)) + 1]}

\* seeds of the cell picks: a seed fixes the sequence of picked cells.
\*   sweep   every attempt picks a new cell
\*   stuck   every attempt picks the same cell
\*   twice   every cell is picked twice in a row
\*   slow    every cell is picked four times in a row
PickSeeds ==
    { [name |-> "sweep", off |-> 0,  mult |-> 1, div |-> 1],
      [name |-> "stuck", off |-> 40, mult |-> 0, div |-> 1],
      [name |-> "twice", off |-> 5,  mult |-> 7, div |-> 2],
      [name |-> "slow",  off |-> 0,  mult |-> 1, div |-> 4] }

\* the cell (row, col) the two random.randint(0, 8) calls of attempt number
\* n (counted from 0) return under seed s
PickCell(s, n) ==
    LET k == (s.off + s.mult * (n \div s.div)) % TotalCells
    IN <<k \div GridSize, k % GridSize>>

\* the values given to random.seed
Seeds == {1, 2}

\* the order in which a seeded source runs through the pick seeds
PickSeedOrder == <<"twice", "sweep", "slow", "stuck">>

\* random.shuffle, draw number n: with the module seeded by the system any
\* outcome of ShuffleOutcomes; seeded with rs the outcome is fixed by rs and
\* the number of draws made since
ShuffleDraw(rs, n) ==
    IF rs = 0
    THEN ShuffleOutcomes(n)
    ELSE {ShuffleOrders[((rs + n) % Len(ShuffleOrders)) + 1]}

\* a draw of cells_to_keep from a source of its own
KeepDraw_ignores_seed(rs, n, range) ==
    range

\* random.randint(min_cells, max_cells) of get_cells_to_keep
KeepDraw(rs, n, range) ==
    IF rs = 0
    THEN range
    ELSE {SetMin(range) + ((rs + n) % Cardinality(range))}

\* the random.randint(0, 8) calls of remove_cells
SeedDraw(rs, n) ==
    IF rs = 0
    THEN PickSeeds
    ELSE {s \in PickSeeds :
              s.name = PickSeedOrder[((rs + n) % Len(PickSeedOrder)) + 1]}

----------------------------------------------------------------------------
(* List objects: names bound to the same object see each other's writes *)

\* an assignment that binds the name to the object it was given
deepcopy_same_object(id, fresh) ==
    id

\* copy.deepcopy(obj): the copy is a new object
deepcopy(id, fresh) ==
    fresh

\* the grid held by object id, for the objects that are still referenced
ObjectValue(id) ==
    IF refs.board = id THEN board
    ELSE IF refs.solution = id THEN solution
    ELSE IF refs.puzzle = id THEN puzzle_board
    ELSE IF \E i \in DOMAIN returned : returned[i].puzzle_id = id
    THEN returned[CHOOSE i \in DOMAIN returned :
                      returned[i].puzzle_id = id].puzzle_now
    ELSE IF \E i \in DOMAIN returned : returned[i].solution_id = id
    THEN returned[CHOOSE i \in DOMAIN returned :
                      returned[i].solution_id = id].solution_now
    ELSE NoneBoard

\* the history with the grid g written into object id
ReturnedAfterWrite(id, g) ==
    [i \in DOMAIN returned |->
        [returned[i] EXCEPT
            !.puzzle_now   = IF returned[i].puzzle_id = id THEN g ELSE @,
            !.solution_now = IF returned[i].solution_id = id THEN g ELSE @]]

\* obj[row][col] = value written in place: every name bound to object id
\* holds the grid g afterwards
WriteObject(id, g) ==
    /\ board' = IF refs.board = id THEN g ELSE board
    /\ solution' = IF refs.solution = id THEN g ELSE solution
    /\ puzzle_board' = IF refs.puzzle = id THEN g ELSE puzzle_board
    /\ returned' = ReturnedAfterWrite(id, g)

----------------------------------------------------------------------------
(* BacktrackingSudokuGenerator *)

\* a scan that returns the last empty cell in row-major order
_find_empty_last(b) ==
    IF \E r \in Idx, c \in Idx : b[r][c] = 0
    THEN CHOOSE cell \in Idx \X Idx :
             /\ b[cell[1]][cell[2]] = 0
             /\ \A r \in Idx, c \in Idx :
                    (r > cell[1] \/ (r = cell[1] /\ c > cell[2])) => b[r][c] # 0
    ELSE << >>

\* _find_empty: the first empty cell in row-major order, << >> for None
_find_empty(b) ==
    IF \E r \in Idx, c \in Idx : b[r][c] = 0
    THEN CHOOSE cell \in Idx \X Idx :
             /\ b[cell[1]][cell[2]] = 0
             /\ \A r \in Idx, c \in Idx :
                    (r < cell[1] \/ (r = cell[1] /\ c < cell[2])) => b[r][c] # 0
    ELSE << >>

InitGenerator ==
    /\ pc = "idle"
    /\ difficulty = << >>
    /\ board = EmptyBoard
    /\ stack = << >>
    /\ solve_result = FALSE
    /\ backtrack_count = 0
    /\ shuffles = 0
    /\ solution = NoneBoard
    /\ puzzle_board = NoneBoard
    /\ level = "MEDIUM"
    /\ cells_to_keep = 0
    /\ cells_to_remove = 0
    /\ removed_count = 0
    /\ attempts = 0
    /\ seed = CHOOSE s \in PickSeeds : s.name = "sweep"
    /\ warned = FALSE
    /\ result = "none"

\* the generator and its caller after construction: __init__ has bound
\* self.board to the first grid object; n is the number of calls the caller
\* is going to make, objects the number of grids that exist
InitSessionWith(validator, rs, n, objects) ==
    /\ board_validator = validator
    /\ random_state = rs
    /\ calls = 0
    /\ session_calls = n
    /\ refs = [board |-> 1, solution |-> 0, puzzle |-> 0]
    /\ allocated = objects
    /\ returned = << >>
    /\ manager = [board |-> 0, solution |-> 0, writes |-> 0]

\* the generator and its caller as main.py builds them, the random module
\* seeded by the system, for a caller that makes one call
InitSession ==
    InitSessionWith("BoardValidator", 0, 1, 1)

\* the locals of a thread that has not called generate yet, and the fields
\* of a generator that __init__ has just built as object number id
FreshContext(id) ==
    [pc |-> "idle", difficulty |-> << >>, stack |-> << >>,
     solve_result |-> FALSE, puzzle_board |-> NoneBoard, puzzle_ref |-> 0,
     level |-> "MEDIUM", cells_to_keep |-> 0, cells_to_remove |-> 0,
     removed_count |-> 0, attempts |-> 0,
     seed |-> CHOOSE s \in PickSeeds : s.name = "sweep",
     warned |-> FALSE, result |-> "none", calls |-> 0,
     board |-> EmptyBoard, solution |-> NoneBoard, backtrack_count |-> 0,
     board_ref |-> id, solution_ref |-> 0,
     writers |-> [board |-> EmptyBoard, solution |-> EmptyBoard]]

\* one thread, the main thread, calls generate
SingleThread ==
    /\ writers = [board |-> EmptyBoard, solution |-> EmptyBoard]
    /\ running = 1
    /\ parked = FreshContext(0)
    /\ sync = "none"
    /\ preemptions = 0

\* what the history records when a call of generate starts
NewEntry(d) ==
    [thread |-> running, difficulty |-> d, random_state |-> random_state,
     first_draw |-> shuffles, status |-> "running",
     puzzle_id |-> 0, solution_id |-> 0,
     puzzle |-> NoneBoard, solution |-> NoneBoard,
     puzzle_now |-> NoneBoard, solution_now |-> NoneBoard,
     solution_writers |-> EmptyBoard]

\* the history entry of the call the running thread is in
OwnEntry ==
    CHOOSE i \in DOMAIN returned :
        returned[i].thread = running /\ returned[i].status = "running"

\* generate that neither resets backtrack_count nor creates a new scratch grid
Generate_keeps_board(d) ==
    /\ pc \in {"idle", "done"}
    /\ calls < session_calls
    /\ calls' = calls + 1
    /\ difficulty' = d
    /\ refs' = [refs EXCEPT !.puzzle = 0]
    /\ puzzle_board' = NoneBoard
    /\ stack' = << >>
    /\ solve_result' = FALSE
    /\ level' = "MEDIUM"
    /\ cells_to_keep' = 0
    /\ cells_to_remove' = 0
    /\ removed_count' = 0
    /\ attempts' = 0
    /\ warned' = FALSE
    /\ result' = "none"
    /\ returned' = Append(returned, NewEntry(d))
    /\ pc' = "enter"
    /\ UNCHANGED <<board, backtrack_count, allocated, writers, shuffles,
                   solution, seed, board_validator, random_state,
                   session_calls, manager, running, parked, sync, preemptions>>

\* generate, up to its call of _solve_board: backtrack_count is reset and
\* self.board is bound to a new grid of zeros; the locals of the call are
\* those of a new activation
Generate(d) ==
    /\ pc \in {"idle", "done"}
    /\ calls < session_calls
    /\ calls' = calls + 1
    /\ difficulty' = d
    /\ backtrack_count' = 0
    /\ board' = EmptyBoard
    /\ refs' = [refs EXCEPT !.board = allocated + 1, !.puzzle = 0]
    /\ allocated' = allocated + 1
    /\ writers' = [writers EXCEPT !.board = EmptyBoard]
    /\ puzzle_board' = NoneBoard
    /\ stack' = << >>
    /\ solve_result' = FALSE
    /\ level' = "MEDIUM"
    /\ cells_to_keep' = 0
    /\ cells_to_remove' = 0
    /\ removed_count' = 0
    /\ attempts' = 0
    /\ warned' = FALSE
    /\ result' = "none"
    /\ returned' = Append(returned, NewEntry(d))
    /\ pc' = "enter"
    /\ UNCHANGED <<shuffles, solution, seed, board_validator, random_state,
                   session_calls, manager, running, parked, sync, preemptions>>

\* _solve_board, from its entry to its for loop: with no empty cell it
\* returns True, and so does every invocation waiting for it
SolveEnter ==
    /\ pc = "enter"
    /\ LET find == _find_empty(board)
       IN IF find = << >>
          THEN /\ solve_result' = TRUE
               /\ stack' = << >>
               /\ pc' = "after_solve"
               /\ UNCHANGED shuffles
          ELSE /\ \E nums \in ShuffleDraw(random_state, shuffles) :
                      stack' = Append(stack, [row |-> find[1], col |-> find[2],
                                              nums |-> nums, i |-> 1])
               /\ shuffles' = shuffles + 1
               /\ pc' = "loop"
               /\ UNCHANGED solve_result
    /\ UNCHANGED <<difficulty, board, backtrack_count, solution, puzzle_board,
                   level, cells_to_keep, cells_to_remove, removed_count,
                   attempts, seed, warned, result, callVars, thrVars>>

\* a for loop whose invocation does not reset its cell after a failed call
SolveLoop_keeps_placement ==
    /\ pc = "loop"
    /\ LET top  == stack[Len(stack)]
           rest == SubSeq(stack, 1, Len(stack) - 1)
           ok   == {k \in top.i .. GridSize :
                        validator_accepts(board_validator, board,
                                          top.row, top.col, top.nums[k])}
       IN IF ok # {}
          THEN LET k == CHOOSE m \in ok : \A n \in ok : m <= n
               IN /\ WriteObject(refs.board,
                         [board EXCEPT ![top.row][top.col] = top.nums[k]])
                  /\ writers' = [writers EXCEPT
                                    !.board[top.row][top.col] = running]
                  /\ stack' = Append(rest, [top EXCEPT !.i = k])
                  /\ pc' = "enter"
                  /\ UNCHANGED <<solve_result, backtrack_count>>
          ELSE IF rest = << >>
               THEN /\ solve_result' = FALSE
                    /\ stack' = << >>
                    /\ pc' = "after_solve"
                    /\ UNCHANGED <<board, solution, puzzle_board, returned,
                                   writers, backtrack_count>>
               ELSE LET caller == rest[Len(rest)]
                    IN /\ backtrack_count' = backtrack_count + 1
                       /\ UNCHANGED <<board, solution, puzzle_board,
                                      returned, writers>>
                       /\ stack' = Append(SubSeq(rest, 1, Len(rest) - 1),
                                          [caller EXCEPT !.i = caller.i + 1])
                       /\ pc' = "loop"
                       /\ UNCHANGED solve_result
    /\ UNCHANGED <<difficulty, shuffles, level, cells_to_keep, cells_to_remove,
                   removed_count, attempts, seed, warned, result,
                   board_validator, random_state, calls, session_calls, refs,
                   allocated, manager, running, parked, sync, preemptions>>

\* the for loop of the innermost invocation, up to its next state change:
\* candidates the validator rejects are skipped; the first accepted one is
\* placed and _solve_board is called; with none left the invocation returns
\* False and its caller undoes its own placement
SolveLoop ==
    /\ pc = "loop"
    /\ LET top  == stack[Len(stack)]
           rest == SubSeq(stack, 1, Len(stack) - 1)
           ok   == {k \in top.i .. GridSize :
                        validator_accepts(board_validator, board,
                                          top.row, top.col, top.nums[k])}
       IN IF ok # {}
          THEN LET k == CHOOSE m \in ok : \A n \in ok : m <= n
               IN /\ WriteObject(refs.board,
                         [board EXCEPT ![top.row][top.col] = top.nums[k]])
                  /\ writers' = [writers EXCEPT
                                    !.board[top.row][top.col] = running]
                  /\ stack' = Append(rest, [top EXCEPT !.i = k])
                  /\ pc' = "enter"
                  /\ UNCHANGED <<solve_result, backtrack_count>>
          ELSE IF rest = << >>
               THEN /\ solve_result' = FALSE
                    /\ stack' = << >>
                    /\ pc' = "after_solve"
                    /\ UNCHANGED <<board, solution, puzzle_board, returned,
                                   writers, backtrack_count>>
               ELSE LET caller == rest[Len(rest)]
                    IN /\ backtrack_count' = backtrack_count + 1
                       /\ WriteObject(refs.board,
                              [board EXCEPT ![caller.row][caller.col] = 0])
                       /\ writers' = [writers EXCEPT
                                         !.board[caller.row][caller.col] = 0]
                       /\ stack' = Append(SubSeq(rest, 1, Len(rest) - 1),
                                          [caller EXCEPT !.i = caller.i + 1])
                       /\ pc' = "loop"
                       /\ UNCHANGED solve_result
    /\ UNCHANGED <<difficulty, shuffles, level, cells_to_keep, cells_to_remove,
                   removed_count, attempts, seed, warned, result,
                   board_validator, random_state, calls, session_calls, refs,
                   allocated, manager, running, parked, sync, preemptions>>

\* what the history and the caller hold after generate returned (None, None)
ReturnNull ==
    /\ result' = "null"
    /\ returned' = [returned EXCEPT ![OwnEntry].status = "null"]
    /\ manager' = [manager EXCEPT !.board = 0, !.solution = 0]
    /\ pc' = "done"

\* generate going on to the copies and to remove_cells whatever _solve_board
\* returned
AfterSolve_ignores_failure ==
    /\ pc = "after_solve"
    /\ solution' = board
    /\ puzzle_board' = board
    /\ refs' = [refs EXCEPT !.solution = allocated + 1,
                            !.puzzle = allocated + 2]
    /\ allocated' = allocated + 2
    /\ writers' = [writers EXCEPT !.solution = writers.board]
    /\ pc' = "remove"
    /\ UNCHANGED <<result, returned, manager>>
    /\ UNCHANGED <<difficulty, board, stack, solve_result, backtrack_count,
                   shuffles, level, cells_to_keep, cells_to_remove,
                   removed_count, attempts, seed, warned, board_validator,
                   random_state, calls, session_calls, running, parked, sync,
                   preemptions>>

\* generate after _solve_board returned: the failure return, or the two deep
\* copies and the call of remove_cells
AfterSolve ==
    /\ pc = "after_solve"
    /\ IF ~solve_result
       THEN /\ ReturnNull
            /\ UNCHANGED <<solution, puzzle_board, refs, allocated, writers>>
       ELSE LET sol == deepcopy(refs.board, allocated + 1)
                puz == deepcopy(sol, allocated + 2)
            IN /\ solution' = board
               /\ puzzle_board' = board
               /\ refs' = [refs EXCEPT !.solution = sol, !.puzzle = puz]
               /\ allocated' = allocated + 2
               /\ writers' = [writers EXCEPT !.solution = writers.board]
               /\ pc' = "remove"
               /\ UNCHANGED <<result, returned, manager>>
    /\ UNCHANGED <<difficulty, board, stack, solve_result, backtrack_count,
                   shuffles, level, cells_to_keep, cells_to_remove,
                   removed_count, attempts, seed, warned, board_validator,
                   random_state, calls, session_calls, running, parked, sync,
                   preemptions>>

\* remove_cells up to its while loop
RemoveInit ==
    /\ pc = "remove"
    /\ level' = ResolveDifficulty(difficulty)
    /\ \E keep \in KeepDraw(random_state, shuffles, KeepRange(level')) :
           /\ cells_to_keep' = keep
           /\ cells_to_remove' = TotalCells - keep
    /\ removed_count' = 0
    /\ attempts' = 0
    /\ seed' \in SeedDraw(random_state, shuffles)
    /\ pc' = "remove_loop"
    /\ UNCHANGED <<difficulty, board, stack, solve_result, backtrack_count,
                   shuffles, solution, puzzle_board, warned, result,
                   callVars, thrVars>>

\* the loop condition of remove_cells, letting the loop run one pick longer
RemoveContinues_one_more ==
    removed_count <= cells_to_remove /\ attempts < max_attempts

\* the loop condition of remove_cells, allowing a pick when the attempts are
\* already at the limit
RemoveContinues_budget_inclusive ==
    removed_count < cells_to_remove /\ attempts <= max_attempts

\* the loop condition of remove_cells
RemoveContinues ==
    removed_count < cells_to_remove /\ attempts < max_attempts

\* a removal that writes the cell's successor value instead of 0
RemovedValue_shifted(old) ==
    (old + 1) % (GridSize + 1)

\* the value remove_cells writes into a picked non-empty cell
RemovedValue(old) ==
    0

\* an iteration that counts a removal whatever the picked cell held
RemoveStep_counts_wasted ==
    /\ pc = "remove_loop"
    /\ RemoveContinues
    /\ LET cell == PickCell(seed, attempts)
       IN /\ attempts' = attempts + 1
          /\ WriteObject(refs.puzzle,
                 [puzzle_board EXCEPT ![cell[1]][cell[2]] = 0])
          /\ removed_count' = removed_count + 1
    /\ UNCHANGED <<pc, difficulty, stack, solve_result, backtrack_count,
                   shuffles, level, cells_to_keep, cells_to_remove,
                   seed, warned, result, board_validator, random_state, calls,
                   session_calls, refs, allocated, manager, thrVars>>

\* one iteration of the while loop of remove_cells
RemoveStep ==
    /\ pc = "remove_loop"
    /\ RemoveContinues
    /\ LET cell == PickCell(seed, attempts)
           row  == cell[1]
           col  == cell[2]
       IN /\ attempts' = attempts + 1
          /\ IF puzzle_board[row][col] # 0
             THEN /\ WriteObject(refs.puzzle,
                         [puzzle_board EXCEPT ![row][col] =
                              RemovedValue(puzzle_board[row][col])])
                  /\ removed_count' = removed_count + 1
             ELSE UNCHANGED <<board, solution, puzzle_board, returned,
                              removed_count>>
    /\ UNCHANGED <<pc, difficulty, stack, solve_result, backtrack_count,
                   shuffles, level, cells_to_keep, cells_to_remove,
                   seed, warned, result, board_validator, random_state, calls,
                   session_calls, refs, allocated, manager, thrVars>>

\* the end of remove_cells (its shortfall warning) and the return of
\* generate: the caller, BoardManager.generate_board, binds _board and
\* _solution to the two objects returned
RemoveExit ==
    /\ pc = "remove_loop"
    /\ ~RemoveContinues
    /\ warned' = (removed_count < cells_to_remove)
    /\ result' = "pair"
    /\ returned' = [returned EXCEPT ![OwnEntry] =
                       [@ EXCEPT !.status = "pair",
                                 !.puzzle_id = refs.puzzle,
                                 !.solution_id = refs.solution,
                                 !.puzzle = puzzle_board,
                                 !.solution = solution,
                                 !.puzzle_now = puzzle_board,
                                 !.solution_now = solution,
                                 !.solution_writers = writers.solution]]
    /\ manager' = [manager EXCEPT !.board = refs.puzzle,
                                  !.solution = refs.solution]
    /\ pc' = "done"
    /\ UNCHANGED <<difficulty, board, stack, solve_result, backtrack_count,
                   shuffles, solution, puzzle_board, level, cells_to_keep,
                   cells_to_remove, removed_count, attempts, seed,
                   board_validator, random_state, calls, session_calls, refs,
                   allocated, thrVars>>

\* random.seed(s) called between two calls of generate
Seed(s) ==
    /\ pc = "done"
    /\ calls < session_calls
    /\ random_state' = s
    /\ shuffles' = 0
    /\ UNCHANGED <<pc, difficulty, board, stack, solve_result, backtrack_count,
                   solution, puzzle_board, level, cells_to_keep,
                   cells_to_remove, removed_count, attempts, seed, warned,
                   result, board_validator, calls, session_calls, refs,
                   allocated, returned, manager, thrVars>>

\* cells and values of the player's writes
PlayerCells == { <<0, 0>>, <<4, 4>> }

PlayerValues == {0, GridSize}

\* BoardManager.set_value: self._board[row][col] = value
SetValue(row, col, value) ==
    /\ pc = "done"
    /\ manager.board # 0
    /\ manager.writes < MaxSetValues
    /\ WriteObject(manager.board,
           [ObjectValue(manager.board) EXCEPT ![row][col] = value])
    /\ manager' = [manager EXCEPT !.writes = @ + 1]
    /\ UNCHANGED <<pc, difficulty, stack, solve_result, backtrack_count,
                   shuffles, level, cells_to_keep, cells_to_remove,
                   removed_count, attempts, seed, warned, result,
                   board_validator, random_state, calls, session_calls, refs,
                   allocated, thrVars>>

----------------------------------------------------------------------------
(* Two threads *)

\* none: the threads call generate on one generator with no synchronisation;
\* lock: on one generator, a call starting only when no call is running;
\* instance: each thread on a generator of its own
SyncModes == {"none", "lock", "instance"}

\* where the model lets a thread be interrupted inside generate: early in
\* the search, between _solve_board and remove_cells, and before the return
PreemptionPoint ==
    \/ pc \in {"enter", "loop"} /\ Len(stack) <= MaxPreemptDepth
    \/ pc \in {"after_solve", "remove"}
    \/ pc = "remove_loop" /\ ~RemoveContinues

\* the locals of the running thread and, for a thread with a generator of
\* its own, the fields of that generator
Context ==
    LET own == (sync = "instance")
    IN [pc |-> pc, difficulty |-> difficulty, stack |-> stack,
        solve_result |-> solve_result, puzzle_board |-> puzzle_board,
        puzzle_ref |-> refs.puzzle, level |-> level,
        cells_to_keep |-> cells_to_keep, cells_to_remove |-> cells_to_remove,
        removed_count |-> removed_count, attempts |-> attempts,
        seed |-> seed, warned |-> warned, result |-> result, calls |-> calls,
        board |-> IF own THEN board ELSE parked.board,
        solution |-> IF own THEN solution ELSE parked.solution,
        backtrack_count |-> IF own THEN backtrack_count
                                   ELSE parked.backtrack_count,
        board_ref |-> IF own THEN refs.board ELSE parked.board_ref,
        solution_ref |-> IF own THEN refs.solution ELSE parked.solution_ref,
        writers |-> IF own THEN writers ELSE parked.writers]

\* the scheduler takes the running thread off the processor and runs the
\* other one; inside generate only where synchronisation allows it
Switch ==
    /\ parked.pc # "done"
    /\ IF pc \in {"idle", "done"}
       THEN UNCHANGED preemptions
       ELSE /\ sync # "lock"
            /\ preemptions < MaxPreemptions
            /\ PreemptionPoint
            /\ preemptions' = preemptions + 1
    /\ running' = 3 - running
    /\ parked' = Context
    /\ pc' = parked.pc
    /\ difficulty' = parked.difficulty
    /\ stack' = parked.stack
    /\ solve_result' = parked.solve_result
    /\ puzzle_board' = parked.puzzle_board
    /\ level' = parked.level
    /\ cells_to_keep' = parked.cells_to_keep
    /\ cells_to_remove' = parked.cells_to_remove
    /\ removed_count' = parked.removed_count
    /\ attempts' = parked.attempts
    /\ seed' = parked.seed
    /\ warned' = parked.warned
    /\ result' = parked.result
    /\ calls' = parked.calls
    /\ IF sync = "instance"
       THEN /\ board' = parked.board
            /\ solution' = parked.solution
            /\ backtrack_count' = parked.backtrack_count
            /\ writers' = parked.writers
            /\ refs' = [board |-> parked.board_ref,
                        solution |-> parked.solution_ref,
                        puzzle |-> parked.puzzle_ref]
       ELSE /\ refs' = [refs EXCEPT !.puzzle = parked.puzzle_ref]
            /\ UNCHANGED <<board, solution, backtrack_count, writers>>
    /\ UNCHANGED <<shuffles, board_validator, random_state, session_calls,
                   allocated, returned, manager, sync>>

----------------------------------------------------------------------------
(* GameController, its managers and the metrics service *)

\* controller.py: the wrong moves that end a game
MAX_WRONG_MOVES == 3

\* start_game calls made on one controller
MaxGames == 2

\* largest value the moves counter is driven to
MaxMoves == 2

\* wrong moves counted beyond MAX_WRONG_MOVES
MaxExtraWrong == 1

\* the pair generate("Hard") returns when the random module was seeded with
\* 1: the first game of SpecPlay
generated_solution ==
    LET rows == << <<9, 5, 1, 8, 3, 2, 7, 4, 6>>,
                   <<8, 3, 2, 7, 6, 4, 5, 1, 9>>,
                   <<4, 6, 7, 5, 1, 9, 3, 2, 8>>,
                   <<5, 1, 9, 3, 2, 8, 4, 6, 7>>,
                   <<3, 2, 8, 4, 7, 6, 9, 5, 1>>,
                   <<6, 7, 4, 1, 9, 5, 2, 8, 3>>,
                   <<1, 9, 5, 2, 8, 3, 6, 7, 4>>,
                   <<2, 8, 3, 6, 4, 7, 1, 9, 5>>,
                   <<7, 4, 6, 9, 5, 1, 8, 3, 2>> >>
    IN [r \in Idx |-> [c \in Idx |-> rows[r + 1][c + 1]]]

generated_puzzle ==
    LET rows == << <<0, 0, 1, 0, 0, 0, 7, 0, 0>>,
                   <<8, 0, 0, 0, 6, 0, 0, 1, 0>>,
                   <<0, 0, 7, 0, 0, 9, 0, 0, 0>>,
                   <<5, 0, 0, 3, 2, 0, 0, 6, 0>>,
                   <<0, 2, 8, 0, 0, 6, 0, 0, 1>>,
                   <<6, 0, 0, 1, 0, 0, 2, 8, 0>>,
                   <<0, 9, 0, 0, 8, 3, 0, 0, 4>>,
                   <<0, 0, 3, 6, 0, 0, 1, 0, 0>>,
                   <<7, 4, 0, 0, 5, 0, 0, 3, 2>> >>
    IN [r \in Idx |-> [c \in Idx |-> rows[r + 1][c + 1]]]

\* what BoardManager.generate_board gets from the generator
GenerateOutcomes ==
    { [board |-> generated_puzzle, solution |-> generated_solution] }

\* the game id main.py records for the session; the games get 1, 2, ...
GAME_SESSION_ID == 0

\* MetricsService.record_game_start, for the service get_metrics_service
\* returns (None: nothing is recorded)
record_game_start(m, game_id) ==
    IF m.service
    THEN [m EXCEPT !.active_games = @ + 1,
                   !._game_start_times = @ \cup {game_id}]
    ELSE m

\* MetricsService.record_game_exit
record_game_exit(m, game_id) ==
    IF m.service
    THEN [m EXCEPT !.active_games = @ - 1,
                   !._game_start_times = @ \ {game_id}]
    ELSE m

\* a check that ends the game only beyond MAX_WRONG_MOVES
_check_game_over_late(c) == c._wrong_moves_counter > MAX_WRONG_MOVES

\* GameController._check_game_over
_check_game_over(c) == c._wrong_moves_counter >= MAX_WRONG_MOVES

\* an accumulate_wrong_moves that also adds a negative argument
accumulate_wrong_moves_unguarded(c, n) ==
    LET added == [c EXCEPT !._wrong_moves_counter = @ + n]
    IN [added EXCEPT !._is_game_over = _check_game_over(added)]

\* GameController.accumulate_wrong_moves: the controller it leaves
accumulate_wrong_moves(c, n) ==
    IF n < 0
    THEN c
    ELSE LET added == [c EXCEPT !._wrong_moves_counter = @ + n]
         IN [added EXCEPT !._is_game_over = _check_game_over(added)]

\* GameController.accumulate_wrong_moves: the metrics it leaves
wrong_moves_metrics(m, c, n) ==
    IF n >= 0 /\ accumulate_wrong_moves(c, n)._is_game_over
    THEN record_game_exit(m, c._current_game_id)
    ELSE m

\* GameController.accumulate_moves: the controller it leaves
accumulate_moves(c, n) ==
    IF n > 0 THEN [c EXCEPT !._moves_counter = @ + n] ELSE c

\* a start_game that keeps the notes modes
start_game_reset_keeps_notes(c) ==
    [c EXCEPT !._moves_counter = 0, !._wrong_moves_counter = 0,
              !._is_game_over = FALSE, !._is_running = FALSE,
              !.pc = "generate"]

\* GameController.start_game up to its call of generate_board: the counters,
\* the flag, NotesManager.reset, TimerManager.reset
start_game_reset(c) ==
    [c EXCEPT !._moves_counter = 0, !._wrong_moves_counter = 0,
              !._is_game_over = FALSE,
              !._notes_mode = FALSE, !._auto_notes_mode = FALSE,
              !._is_running = FALSE,
              !.pc = "generate"]

\* SudokuTile.__init__
SudokuTile(value) ==
    [value |-> value, is_fixed |-> value # 0, _is_wrong |-> FALSE]

\* SudokuBoard.tiles before the first board is shown: no tile exists
NoTiles == << >>

\* BoardManager._board and _solution before generate_board: None
NoBoard == << >>

\* BoardManager.count_numbers
count_numbers(b) ==
    [n \in 1 .. GridSize |->
        Cardinality({cell \in Idx \X Idx : b[cell[1]][cell[2]] = n})]

\* BoardManager.update_count
update_count(counts, number, delta) ==
    IF number \in DOMAIN counts
    THEN [counts EXCEPT ![number] = @ + delta]
    ELSE [k \in DOMAIN counts \cup {number} |->
             IF k = number THEN delta ELSE counts[k]]

\* NumberPanel.update_number_count: whether the panel of a number
\* is enabled after it
PanelEnabled(count) ==
    LET shown == IF count < 0 THEN 0
                 ELSE IF count > GridSize THEN GridSize ELSE count
    IN GridSize - shown > 0

NoReply == [op |-> "none", arg |-> 0, value |-> 0]

\* the controller, its managers and the UIManager as their __init__ leave
\* them, main not started; service: whether the metrics service exists
AppAt(position, service) ==
    /\ app = [pc |-> position, games |-> 0]
    /\ metrics = [service |-> service, active_games |-> 0,
                  _game_start_times |-> {}]
    /\ ctl = [_moves_counter |-> 0, _wrong_moves_counter |-> 0,
              _is_game_over |-> FALSE, _current_game_id |-> -1,
              _notes_mode |-> FALSE, _auto_notes_mode |-> FALSE,
              _is_running |-> FALSE, pc |-> "idle"]
    /\ bm = [_board |-> NoBoard, _solution |-> NoBoard,
             _counts |-> [n \in 1 .. GridSize |-> 0]]
    /\ ui = [tiles |-> NoTiles,
             selected_pos |-> << >>,
             clicks_bound |-> FALSE,
             enabled |-> << >>,
             panel_bound |-> TRUE,
             _timer_running |-> FALSE,
             game_over_shown |-> FALSE,
             error |-> "none"]
    /\ reply = NoReply

AppAtRestWith(service) == AppAt("boot", service)

AppAtRest == AppAtRestWith(FALSE)

\* the active_games gauge and the counts of the numbers are driven no lower
\* than -MaxDeficit
MaxDeficit == 1

\* the arguments of accumulate_wrong_moves and accumulate_moves
CallArguments == {-1, 0, 1, 2}

\* a call keeps the counters and the gauge within the bounds of the model
WithinBounds(c, m) ==
    /\ c._moves_counter <= MaxMoves
    /\ c._wrong_moves_counter <= MAX_WRONG_MOVES + MaxExtraWrong
    /\ m.active_games >= -MaxDeficit

\* GameController.start_game, lines 317-323: the state of the game is reset
StartGame ==
    /\ ctl.pc = "idle"
    /\ app.games < MaxGames
    /\ ctl' = start_game_reset(ctl)
    /\ reply' = [op |-> "start_game", arg |-> 0, value |-> 0]
    /\ UNCHANGED <<app, metrics, bm, ui, coreVars>>

\* GameController.start_game, lines 326-334: BoardManager.generate_board
\* stores the pair the generator returns, the game gets a new id and its
\* start is recorded
GenerateBoard ==
    /\ ctl.pc = "generate"
    /\ \E g \in GenerateOutcomes :
           bm' = [bm EXCEPT !._board = g.board, !._solution = g.solution]
    /\ app' = [app EXCEPT !.games = @ + 1]
    /\ ctl' = [ctl EXCEPT !._current_game_id = app.games + 1, !.pc = "ui"]
    /\ metrics' = record_game_start(metrics, app.games + 1)
    /\ UNCHANGED <<ui, reply, coreVars>>

\* GameController.start_game, line 337: UIManager.start_game builds the
\* tiles of the new board, has BoardManager count its numbers, shows the
\* counts in the number panel, enables the panel and starts the timer
StartGameUI ==
    /\ ctl.pc = "ui"
    /\ bm' = [bm EXCEPT !._counts = count_numbers(bm._board)]
    /\ ui' = [ui EXCEPT
                !.tiles = [r \in Idx |-> [c \in Idx |->
                              SudokuTile(bm._board[r][c])]],
                !.selected_pos = << >>,
                !.clicks_bound = TRUE,
                !.enabled = [n \in 1 .. GridSize |->
                                PanelEnabled(count_numbers(bm._board)[n])],
                !.panel_bound = TRUE,
                !._timer_running = IF ctl._is_running THEN @ ELSE TRUE,
                !.game_over_shown = FALSE,
                !.error = "none"]
    /\ ctl' = [ctl EXCEPT !._is_running = TRUE, !.pc = "idle"]
    /\ UNCHANGED <<app, metrics, reply, coreVars>>

\* GameController.accumulate_wrong_moves called with n
AccumulateWrongMoves(n) ==
    /\ ctl.pc = "idle"
    /\ ctl' = accumulate_wrong_moves(ctl, n)
    /\ metrics' = wrong_moves_metrics(metrics, ctl, n)
    /\ WithinBounds(ctl', metrics')
    /\ reply' = [op |-> "accumulate_wrong_moves", arg |-> n,
                 value |-> ctl'._wrong_moves_counter]
    /\ UNCHANGED <<app, bm, ui, coreVars>>

\* GameController.accumulate_moves called with n
AccumulateMoves(n) ==
    /\ ctl.pc = "idle"
    /\ ctl' = accumulate_moves(ctl, n)
    /\ WithinBounds(ctl', metrics)
    /\ reply' = [op |-> "accumulate_moves", arg |-> n,
                 value |-> ctl'._moves_counter]
    /\ UNCHANGED <<app, metrics, bm, ui, coreVars>>

\* GameController.toggle_notes_mode
ToggleNotesMode ==
    /\ ctl.pc = "idle"
    /\ ctl' = [ctl EXCEPT !._notes_mode = ~@]
    /\ reply' = [op |-> "toggle_notes_mode", arg |-> 0, value |-> 0]
    /\ UNCHANGED <<app, metrics, bm, ui, coreVars>>

\* GameController.toggle_auto_notes_mode
ToggleAutoNotesMode ==
    /\ ctl.pc = "idle"
    /\ ctl' = [ctl EXCEPT !._auto_notes_mode = ~@]
    /\ reply' = [op |-> "toggle_auto_notes_mode", arg |-> 0, value |-> 0]
    /\ UNCHANGED <<app, metrics, bm, ui, coreVars>>

\* GameController.stop_timer
StopTimer ==
    /\ ctl.pc = "idle"
    /\ ctl._is_running
    /\ ctl' = [ctl EXCEPT !._is_running = FALSE]
    /\ reply' = [op |-> "stop_timer", arg |-> 0, value |-> 0]
    /\ UNCHANGED <<app, metrics, bm, ui, coreVars>>

----------------------------------------------------------------------------
(* UIManager: the handlers of the player's input; main *)

\* the digits the player types and clicks
KeyDigits == {7, 9}

\* GameEngine.is_input_correct
is_input_correct(sol, row, col, value) == sol[row][col] = value

\* an is_valid_input that always judges by the rules of the board
is_valid_input_by_rules(c, b, row, col, value) ==
    can_input(b._board, row, col, value)

\* GameController.is_valid_input
is_valid_input(c, b, row, col, value) ==
    IF c._notes_mode
    THEN can_input(b._board, row, col, value)
    ELSE is_input_correct(b._solution, row, col, value)

\* UIManager._handle_number_input: what it returns and how it leaves the
\* controller, the board manager, the tiles and the metrics
_handle_number_input(c, b, u, m, row, col, value) ==
    IF is_valid_input(c, b, row, col, value)
    THEN [is_valid |-> TRUE,
          ctl |-> accumulate_moves(c, 1),
          bm |-> [b EXCEPT !._board[row][col] = value],
          ui |-> [u EXCEPT !.tiles[row][col] =
                     [@ EXCEPT !.value = value, !._is_wrong = FALSE]],
          metrics |-> m]
    ELSE [is_valid |-> FALSE,
          ctl |-> accumulate_wrong_moves(c, 1),
          bm |-> b,
          ui |-> [u EXCEPT !.tiles[row][col] =
                     [@ EXCEPT !.value = value, !._is_wrong = TRUE]],
          metrics |-> wrong_moves_metrics(m, c, 1)]

\* UIManager._stop_timer: the UIManager and the controller it leaves
_stop_timer_ui(u) == [u EXCEPT !._timer_running = FALSE]

_stop_timer_ctl(u, c) ==
    IF u._timer_running THEN [c EXCEPT !._is_running = FALSE] ELSE c

\* UIManager.on_game_over: the timer is stopped, SudokuBoard.disable_board
\* unbinds the clicks of the tiles, NumberPanel.disable_all disables and
\* unbinds the number panels
on_game_over(u) ==
    [_stop_timer_ui(u) EXCEPT
        !.clicks_bound = FALSE,
        !.enabled = [n \in 1 .. GridSize |-> FALSE],
        !.panel_bound = FALSE,
        !.game_over_shown = TRUE]

\* the player can act: the main loop runs and no handler is running
MainLoopIdle == app.pc = "running" /\ ctl.pc = "idle"

\* SudokuBoard._handle_tile_click: the clicked tile becomes the selection
TileClick(cell) ==
    /\ MainLoopIdle
    /\ ui.clicks_bound
    /\ ui' = [ui EXCEPT !.selected_pos = cell, !.error = "none"]
    /\ UNCHANGED <<app, metrics, ctl, bm, reply, coreVars>>

\* UIManager._on_key_press for a digit key
DigitKeyPress(value) ==
    /\ MainLoopIdle
    /\ ui.selected_pos # << >>
    /\ LET row == ui.selected_pos[1]
           col == ui.selected_pos[2]
           r   == _handle_number_input(ctl, bm, ui, metrics, row, col, value)
       IN /\ ~ui.tiles[row][col].is_fixed
          /\ IF r.is_valid
             THEN LET counts == update_count(r.bm._counts, value, 1)
                  IN /\ bm' = [r.bm EXCEPT !._counts = counts]
                     /\ ui' = [r.ui EXCEPT
                                 !.enabled[value] = PanelEnabled(counts[value]),
                                 !.error = "none"]
                     /\ ctl' = r.ctl
             ELSE /\ bm' = r.bm
                  /\ IF r.ctl._is_game_over
                     THEN /\ ui' = [on_game_over(r.ui) EXCEPT !.error = "none"]
                          /\ ctl' = _stop_timer_ctl(r.ui, r.ctl)
                     ELSE /\ ui' = [r.ui EXCEPT !.error = "none"]
                          /\ ctl' = r.ctl
          /\ metrics' = r.metrics
    /\ WithinBounds(ctl', metrics')
    /\ UNCHANGED <<app, reply, coreVars>>

\* UIManager._on_key_press for BackSpace or Delete: the count of the value of
\* a tile that is not marked wrong is lowered and shown, which raises
\* KeyError for the value 0 that has no number panel; otherwise
\* _handle_delete_input empties the tile and the cell
DeleteKeyPress ==
    /\ MainLoopIdle
    /\ ui.selected_pos # << >>
    /\ LET row    == ui.selected_pos[1]
           col    == ui.selected_pos[2]
           tile   == ui.tiles[row][col]
           counts == IF tile._is_wrong
                     THEN bm._counts
                     ELSE update_count(bm._counts, tile.value, -1)
       IN /\ ~tile.is_fixed
          /\ \A k \in DOMAIN counts : counts[k] >= -MaxDeficit
          /\ IF ~tile._is_wrong /\ tile.value \notin 1 .. GridSize
             THEN /\ bm' = [bm EXCEPT !._counts = counts]
                  /\ ui' = [ui EXCEPT !.error = "KeyError"]
             ELSE /\ bm' = [bm EXCEPT !._counts = counts,
                                      !._board[row][col] = 0]
                  /\ ui' = [ui EXCEPT
                              !.enabled = IF tile._is_wrong THEN @
                                          ELSE [@ EXCEPT ![tile.value] =
                                                  PanelEnabled(counts[tile.value])],
                              !.tiles[row][col] =
                                  [@ EXCEPT !.value = 0, !._is_wrong = FALSE],
                              !.error = "none"]
    /\ UNCHANGED <<app, metrics, ctl, reply, coreVars>>

\* NumberPanel._handle_number_click and UIManager._on_number_click: the click
\* on an enabled number is an input into the selected cell
NumberClick(number) ==
    /\ MainLoopIdle
    /\ ui.panel_bound
    /\ number \in DOMAIN ui.enabled
    /\ ui.enabled[number]
    /\ ui.selected_pos # << >>
    /\ LET r == _handle_number_input(ctl, bm, ui, metrics, ui.selected_pos[1],
                                     ui.selected_pos[2], number)
       IN /\ ctl' = r.ctl
          /\ bm' = r.bm
          /\ ui' = [r.ui EXCEPT !.error = "none"]
          /\ metrics' = r.metrics
    /\ WithinBounds(ctl', metrics')
    /\ UNCHANGED <<app, reply, coreVars>>

\* the Notes Mode checkbox: the binding of the request event passes the
\* event to _on_notes_mode, which takes no argument; the call raises
\* TypeError before the controller is reached
NotesModeRequest ==
    /\ MainLoopIdle
    /\ ui' = [ui EXCEPT !.error = "TypeError"]
    /\ UNCHANGED <<app, metrics, ctl, bm, reply, coreVars>>

\* UIManager._on_notes_mode called as it is defined, without the event:
\* GameController.toggle_notes_mode switches the notes mode
_on_notes_mode ==
    /\ MainLoopIdle
    /\ ctl' = [ctl EXCEPT !._notes_mode = ~@]
    /\ ui' = [ui EXCEPT !.error = "none"]
    /\ UNCHANGED <<app, metrics, bm, reply, coreVars>>

\* UIManager._on_new_game: the timer is stopped and start_game is called
NewGame ==
    /\ MainLoopIdle
    /\ app.games < MaxGames
    /\ ui' = [_stop_timer_ui(ui) EXCEPT !.error = "none"]
    /\ ctl' = start_game_reset(_stop_timer_ctl(ui, ctl))
    /\ reply' = [op |-> "start_game", arg |-> 0, value |-> 0]
    /\ UNCHANGED <<app, metrics, bm, coreVars>>

\* what initialize_metrics leaves: the service with its server started, the
\* service although start_http_server raised, or no service
MetricsOutcomes == {"started", "server_failed", "none"}

\* main.setup_metrics: the start of the session is recorded when
\* initialize_metrics did not raise
SetupMetrics(outcome) ==
    /\ app.pc = "boot"
    /\ metrics' =
          IF outcome = "started"
          THEN record_game_start([metrics EXCEPT !.service = TRUE],
                                 GAME_SESSION_ID)
          ELSE [metrics EXCEPT !.service = (outcome = "server_failed")]
    /\ app' = [app EXCEPT !.pc = "setup"]
    /\ UNCHANGED <<ctl, bm, ui, reply, coreVars>>

\* main.setup_game_components: the first game is started, then main enters
\* the main loop
SetupGameComponents ==
    /\ app.pc = "setup"
    /\ ctl' = start_game_reset(ctl)
    /\ app' = [app EXCEPT !.pc = "running"]
    /\ reply' = [op |-> "start_game", arg |-> 0, value |-> 0]
    /\ UNCHANGED <<metrics, bm, ui, coreVars>>

\* main.on_closing, the player confirming: the exit of the session is
\* recorded and the window destroyed
OnClosing ==
    /\ MainLoopIdle
    /\ metrics' = record_game_exit(metrics, GAME_SESSION_ID)
    /\ metrics'.active_games >= -MaxDeficit
    /\ app' = [app EXCEPT !.pc = "closed"]
    /\ UNCHANGED <<ctl, bm, ui, reply, coreVars>>

\* main.run_main_loop after mainloop returned: the exit of the session is
\* recorded
MainLoopEnds ==
    /\ app.pc = "closed"
    /\ metrics' = record_game_exit(metrics, GAME_SESSION_ID)
    /\ app' = [app EXCEPT !.pc = "ended"]
    /\ UNCHANGED <<ctl, bm, ui, reply, coreVars>>

----------------------------------------------------------------------------
(* GameStats *)

\* the difficulties whose statistics are updated
StatDifficulties == { DifficultyValue["EASY"], DifficultyValue["HARD"] }

\* the moves, the wrong moves and the times passed to update_stats
MovesMade == {2}

WrongMovesMade == {0, 1}

TimesTaken == {1, 2}

\* float('inf'): above every time taken
inf == 3

\* at most MaxUpdates calls of update_stats
MaxUpdates == 4

max(a, b) == IF a >= b THEN a ELSE b

min(a, b) == IF a <= b THEN a ELSE b

\* GameStats.DEFAULT_VALUES
DEFAULT_VALUES ==
    [games_played |-> 0, games_won |-> 0, games_lost |-> 0,
     total_moves |-> 0, wrong_moves |-> 0,
     fastest_win_time |-> inf, longest_win_time |-> 0,
     current_streak |-> 0, longest_win_streak |-> 0,
     longest_loss_streak |-> 0]

\* an update_stats that counts the streak on from wherever it stands
update_stats_running_streak(s, won, moves, wrong_moves, time_taken) ==
    LET counted == [s EXCEPT !.total_moves = @ + moves,
                             !.wrong_moves = @ + wrong_moves]
    IN IF won
       THEN LET streak == s.current_streak + 1
            IN [counted EXCEPT
                   !.games_won = @ + 1,
                   !.current_streak = streak,
                   !.longest_win_streak = max(@, streak),
                   !.fastest_win_time = min(@, time_taken),
                   !.longest_win_time = max(@, time_taken)]
       ELSE LET streak == s.current_streak - 1
            IN [counted EXCEPT
                   !.games_lost = @ + 1,
                   !.current_streak = streak,
                   !.longest_loss_streak = min(@, streak)]

\* GameStats.update_stats: the statistics of the difficulty it leaves
update_stats(s, won, moves, wrong_moves, time_taken) ==
    LET counted == [s EXCEPT !.total_moves = @ + moves,
                             !.wrong_moves = @ + wrong_moves]
    IN IF won
       THEN LET streak == max(0, s.current_streak) + 1
            IN [counted EXCEPT
                   !.games_won = @ + 1,
                   !.current_streak = streak,
                   !.longest_win_streak = max(@, streak),
                   !.fastest_win_time = min(@, time_taken),
                   !.longest_win_time = max(@, time_taken)]
       ELSE LET streak == min(0, s.current_streak) - 1
            IN [counted EXCEPT
                   !.games_lost = @ + 1,
                   !.current_streak = streak,
                   !.longest_loss_streak = min(@, streak)]

\* no GameStats has been constructed
StatsAbsent ==
    /\ stats = << >>
    /\ results = << >>

\* GameStats.__init__ without a stats file: load_stats gives every
\* difficulty a copy of the default values
StatsLoaded ==
    /\ stats = [d \in StatDifficulties |-> DEFAULT_VALUES]
    /\ results = [d \in StatDifficulties |-> << >>]

\* the number of update_stats calls made so far
UpdatesMade ==
    LET RECURSIVE Sum(_)
        Sum(D) == IF D = {} THEN 0
                  ELSE LET d == CHOOSE x \in D : TRUE
                       IN Len(results[d]) + Sum(D \ {d})
    IN Sum(DOMAIN results)

\* GameStats.update_stats called for difficulty d
UpdateStats(d, won, moves, wrong_moves, time_taken) ==
    /\ UpdatesMade < MaxUpdates
    /\ stats' = [stats EXCEPT
                    ![d] = update_stats(@, won, moves, wrong_moves, time_taken)]
    /\ results' = [results EXCEPT ![d] = Append(@, won)]
    /\ UNCHANGED <<genVars, valVars, callVars, thrVars, histVars, appVars>>

----------------------------------------------------------------------------
(* Specifications *)

ValidatorAtRest ==
    /\ vgrid = EmptyBoard
    /\ vwrites = 0
    /\ vcall = NoCall

\* no search has run yet
NoTrace == [entries |-> << >>, placements |-> 0, starts |-> << >>]

HistoryAtRest == trace = NoTrace

Init ==
    /\ InitGenerator
    /\ InitSession
    /\ SingleThread
    /\ ValidatorAtRest
    /\ HistoryAtRest
    /\ StatsAbsent
    /\ AppAtRest

Next ==
    \/ \E d \in DifficultyInputs : Generate(d) /\ UNCHANGED <<valVars, histVars, appVars, statVars>>
    \/ SolveEnter /\ UNCHANGED <<valVars, histVars, appVars, statVars>>
    \/ SolveLoop /\ UNCHANGED <<valVars, histVars, appVars, statVars>>
    \/ AfterSolve /\ UNCHANGED <<valVars, histVars, appVars, statVars>>
    \/ RemoveInit /\ UNCHANGED <<valVars, histVars, appVars, statVars>>
    \/ RemoveStep /\ UNCHANGED <<valVars, histVars, appVars, statVars>>
    \/ RemoveExit /\ UNCHANGED <<valVars, histVars, appVars, statVars>>

Spec == Init /\ [][Next]_vars

\* generate runs to completion on the calling thread: a step that can be
\* taken is taken
FairSpec == Spec /\ WF_vars(Next)

InitV ==
    /\ InitValidator
    /\ InitGenerator
    /\ InitSession
    /\ SingleThread
    /\ HistoryAtRest
    /\ StatsAbsent
    /\ AppAtRest

SpecValidator == InitV /\ [][NextValidator]_vars

\* one call of generate on a generator whose board_validator attribute is
\* the BoardValidator or has been replaced
InitFailure ==
    /\ InitGenerator
    /\ \E v \in ValidatorImpls : InitSessionWith(v, 0, 1, 1)
    /\ SingleThread
    /\ ValidatorAtRest
    /\ HistoryAtRest
    /\ StatsAbsent
    /\ AppAtRest

SpecFailure == InitFailure /\ [][Next]_vars

\* the difficulties of the repeated calls
CallDifficulties == { DifficultyValue["EASY"], DifficultyValue["EXPERT"] }

\* MaxCalls calls of BoardManager.generate_board on the generator of a new
\* game, the random module seeded
InitCalls ==
    /\ InitGenerator
    /\ \E s \in Seeds : InitSessionWith("BoardValidator", s, MaxCalls, 1)
    /\ SingleThread
    /\ ValidatorAtRest
    /\ HistoryAtRest
    /\ StatsAbsent
    /\ AppAtRest

NextCalls ==
    \/ \E d \in CallDifficulties : Generate(d) /\ UNCHANGED <<valVars, histVars, appVars, statVars>>
    \/ SolveEnter /\ UNCHANGED <<valVars, histVars, appVars, statVars>>
    \/ SolveLoop /\ UNCHANGED <<valVars, histVars, appVars, statVars>>
    \/ AfterSolve /\ UNCHANGED <<valVars, histVars, appVars, statVars>>
    \/ RemoveInit /\ UNCHANGED <<valVars, histVars, appVars, statVars>>
    \/ RemoveStep /\ UNCHANGED <<valVars, histVars, appVars, statVars>>
    \/ RemoveExit /\ UNCHANGED <<valVars, histVars, appVars, statVars>>
    \/ \E s \in Seeds : Seed(s) /\ UNCHANGED <<valVars, histVars, appVars, statVars>>

SpecCalls == InitCalls /\ [][NextCalls]_vars

\* the calls run to completion: a step that can be taken is taken
FairCalls == SpecCalls /\ WF_vars(NextCalls)

\* the difficulty of the games the player plays
PlayDifficulties == { DifficultyValue["HARD"] }

\* games started one after the other through BoardManager.generate_board,
\* the player writing cells through BoardManager.set_value
NextPlay ==
    \/ \E d \in PlayDifficulties : Generate(d) /\ UNCHANGED <<valVars, histVars, appVars, statVars>>
    \/ SolveEnter /\ UNCHANGED <<valVars, histVars, appVars, statVars>>
    \/ SolveLoop /\ UNCHANGED <<valVars, histVars, appVars, statVars>>
    \/ AfterSolve /\ UNCHANGED <<valVars, histVars, appVars, statVars>>
    \/ RemoveInit /\ UNCHANGED <<valVars, histVars, appVars, statVars>>
    \/ RemoveStep /\ UNCHANGED <<valVars, histVars, appVars, statVars>>
    \/ RemoveExit /\ UNCHANGED <<valVars, histVars, appVars, statVars>>
    \/ \E cell \in PlayerCells, value \in PlayerValues :
           SetValue(cell[1], cell[2], value) /\ UNCHANGED <<valVars, histVars, appVars, statVars>>

SpecPlay == InitCalls /\ [][NextPlay]_vars

\* the difficulty of the concurrent calls
ThreadDifficulties == { DifficultyValue["EASY"] }

\* two threads, each calling generate once, the random module seeded with 1;
\* the second thread's generator, when it has one of its own, is grid object
\* number 2
InitThreads ==
    /\ InitGenerator
    /\ InitSessionWith("BoardValidator", 1, 1, 2)
    /\ writers = [board |-> EmptyBoard, solution |-> EmptyBoard]
    /\ running = 1
    /\ parked = FreshContext(2)
    /\ sync \in SyncModes
    /\ preemptions = 0
    /\ ValidatorAtRest
    /\ HistoryAtRest
    /\ StatsAbsent
    /\ AppAtRest

NextThreads ==
    \/ \E d \in ThreadDifficulties : Generate(d) /\ UNCHANGED <<valVars, histVars, appVars, statVars>>
    \/ SolveEnter /\ UNCHANGED <<valVars, histVars, appVars, statVars>>
    \/ SolveLoop /\ UNCHANGED <<valVars, histVars, appVars, statVars>>
    \/ AfterSolve /\ UNCHANGED <<valVars, histVars, appVars, statVars>>
    \/ RemoveInit /\ UNCHANGED <<valVars, histVars, appVars, statVars>>
    \/ RemoveStep /\ UNCHANGED <<valVars, histVars, appVars, statVars>>
    \/ RemoveExit /\ UNCHANGED <<valVars, histVars, appVars, statVars>>
    \/ Switch /\ UNCHANGED <<valVars, histVars, appVars, statVars>>

SpecThreads == InitThreads /\ [][NextThreads]_vars

\* the history of the search kept along a step of generate: an invocation
\* that is entered records the grid, backtrack_count and the number of
\* placements of that moment; an invocation that returns drops its record; a
\* step from the for loop into _solve_board is a placement
Traced ==
    trace' =
        [entries |->
            IF Len(stack') > Len(stack)
            THEN Append(trace.entries,
                        [board |-> board, backtrack_count |-> backtrack_count,
                         placements |-> trace.placements])
            ELSE SubSeq(trace.entries, 1, Len(stack')),
         placements |->
            IF pc = "loop" /\ pc' = "enter" THEN trace.placements + 1
            ELSE IF pc \in {"idle", "done"} /\ pc' = "enter" THEN 0
            ELSE trace.placements,
         starts |->
            IF pc \in {"idle", "done"} /\ pc' = "enter"
            THEN Append(trace.starts, 0)
            ELSE trace.starts]

\* values assigned to backtrack_count from outside the search
CounterValues == {3}

\* the public attribute backtrack_count is assigned after generate has reset
\* it and before the search starts
SetBacktrackCount(n) ==
    /\ pc = "enter"
    /\ stack = << >>
    /\ backtrack_count = 0
    /\ backtrack_count' = n
    /\ trace' = [trace EXCEPT !.starts[Len(trace.starts)] = n]
    /\ UNCHANGED <<pc, difficulty, board, stack, solve_result, shuffles,
                   solution, puzzle_board, level, cells_to_keep,
                   cells_to_remove, removed_count, attempts, seed, warned,
                   result, callVars, thrVars>>

\* the difficulty of the calls whose search is traced
UndoDifficulties == { DifficultyValue["EASY"] }

\* MaxCalls calls of generate, the random module seeded and reseeded, the
\* history of the search kept
NextUndo ==
    \/ \E d \in UndoDifficulties : Generate(d) /\ Traced
       /\ UNCHANGED <<valVars, appVars, statVars>>
    \/ SolveEnter /\ Traced
       /\ UNCHANGED <<valVars, appVars, statVars>>
    \/ SolveLoop /\ Traced
       /\ UNCHANGED <<valVars, appVars, statVars>>
    \/ AfterSolve /\ Traced
       /\ UNCHANGED <<valVars, appVars, statVars>>
    \/ RemoveInit /\ Traced
       /\ UNCHANGED <<valVars, appVars, statVars>>
    \/ RemoveStep /\ Traced
       /\ UNCHANGED <<valVars, appVars, statVars>>
    \/ RemoveExit /\ Traced
       /\ UNCHANGED <<valVars, appVars, statVars>>
    \/ \E s \in Seeds : Seed(s) /\ Traced
       /\ UNCHANGED <<valVars, appVars, statVars>>
    \/ \E n \in CounterValues : SetBacktrackCount(n)
       /\ UNCHANGED <<valVars, appVars, statVars>>

SpecUndo == InitCalls /\ [][NextUndo]_vars

\* a GameController after construction, the metrics service initialised or
\* not, the generator at rest
InitController ==
    /\ InitGenerator
    /\ InitSession
    /\ SingleThread
    /\ ValidatorAtRest
    /\ HistoryAtRest
    /\ StatsAbsent
    /\ \E service \in BOOLEAN : AppAtRestWith(service)

\* the calls made on the controller
NextController ==
    \/ StartGame
    \/ GenerateBoard
    \/ StartGameUI
    \/ \E n \in CallArguments : AccumulateWrongMoves(n)
    \/ \E n \in CallArguments : AccumulateMoves(n)
    \/ ToggleNotesMode
    \/ ToggleAutoNotesMode
    \/ StopTimer

SpecController == InitController /\ [][NextController]_vars

\* main from its start to its end: the metrics are set up, the first game is
\* started, the player plays, starts new games and closes the window
NextSession ==
    \/ \E outcome \in MetricsOutcomes : SetupMetrics(outcome)
    \/ SetupGameComponents
    \/ GenerateBoard
    \/ StartGameUI
    \/ \E cell \in PlayerCells : TileClick(cell)
    \/ \E value \in KeyDigits : DigitKeyPress(value)
    \/ DeleteKeyPress
    \/ \E number \in KeyDigits : NumberClick(number)
    \/ NotesModeRequest
    \/ NewGame
    \/ OnClosing
    \/ MainLoopEnds

SpecSession == Init /\ [][NextSession]_vars

\* a GameStats after construction, everything else at rest
InitStats ==
    /\ InitGenerator
    /\ InitSession
    /\ SingleThread
    /\ ValidatorAtRest
    /\ HistoryAtRest
    /\ AppAtRest
    /\ StatsLoaded

\* the calls of update_stats
NextStats ==
    \E d \in StatDifficulties, won \in BOOLEAN, moves \in MovesMade,
       wrong_moves \in WrongMovesMade, time_taken \in TimesTaken :
        UpdateStats(d, won, moves, wrong_moves, time_taken)

SpecStats == InitStats /\ [][NextStats]_vars

\* main after setup_metrics, when initialize_metrics left no metrics service
InitGame ==
    /\ InitGenerator
    /\ InitSession
    /\ SingleThread
    /\ ValidatorAtRest
    /\ HistoryAtRest
    /\ StatsAbsent
    /\ AppAt("setup", FALSE)

\* the games of a session: the first game is started, the player plays and
\* starts new games
NextGame ==
    \/ SetupGameComponents
    \/ GenerateBoard
    \/ StartGameUI
    \/ \E cell \in PlayerCells : TileClick(cell)
    \/ \E value \in KeyDigits : DigitKeyPress(value)
    \/ DeleteKeyPress
    \/ \E number \in KeyDigits : NumberClick(number)
    \/ NotesModeRequest
    \/ NewGame

SpecGame == InitGame /\ [][NextGame]_vars

\* the games of a session with the notes mode of the controller switched on
\* and off between the inputs of the player
NextNotes ==
    \/ SetupGameComponents
    \/ GenerateBoard
    \/ StartGameUI
    \/ \E cell \in PlayerCells : TileClick(cell)
    \/ \E value \in KeyDigits : DigitKeyPress(value)
    \/ DeleteKeyPress
    \/ \E number \in KeyDigits : NumberClick(number)
    \/ _on_notes_mode
    \/ NewGame

SpecNotes == InitGame /\ [][NextNotes]_vars

----------------------------------------------------------------------------
(* Vocabulary of the properties *)

Cells == Idx \X Idx

\* number of non-zero cells of a grid
NonZeroCount(g) == Cardinality({cell \in Cells : g[cell[1]][cell[2]] # 0})

\* the cells of the 3x3 box number <<p, q>>, p and q in 0..2
BoxCells(p, q) ==
    {cell \in Cells : cell[1] \div BoxSize = p /\ cell[2] \div BoxSize = q}

\* every row, column and box holds each value 1..9 exactly once
IsCompleteSudoku(g) ==
    \A v \in Values :
        /\ \A r \in Idx : Cardinality({c \in Idx : g[r][c] = v}) = 1
        /\ \A c \in Idx : Cardinality({r \in Idx : g[r][c] = v}) = 1
        /\ \A p \in 0 .. 2, q \in 0 .. 2 :
               Cardinality({cell \in BoxCells(p, q) : g[cell[1]][cell[2]] = v}) = 1

\* generate has returned a (puzzle, solution) pair
ReturnedPair == pc = "done" /\ result = "pair"

\* remove_cells is running or has run
InRemoval == pc = "remove_loop" \/ ReturnedPair

\* the cells sharing a row, a column or a box with (row, col), itself included
Peers(row, col) ==
    {cell \in Cells :
        \/ cell[1] = row
        \/ cell[2] = col
        \/ /\ cell[1] \div BoxSize = row \div BoxSize
           /\ cell[2] \div BoxSize = col \div BoxSize}

\* the "cells to keep" ranges of the difficulty table
TableRange(str) ==
    CASE str = <<"E", "a", "s", "y">>           -> 40 .. 45
      [] str = <<"M", "e", "d", "i", "u", "m">> -> 32 .. 39
      [] str = <<"H", "a", "r", "d">>           -> 25 .. 31
      [] str = <<"E", "x", "p", "e", "r", "t">> -> 17 .. 24

KnownNames ==
    { <<"E", "a", "s", "y">>, <<"M", "e", "d", "i", "u", "m">>,
      <<"H", "a", "r", "d">>, <<"E", "x", "p", "e", "r", "t">> }


----------------------------------------------------------------------------
(* Properties *)

\* C1: whenever generate returns a pair, the returned solution is a full
\* grid in which every row, every column and every 3x3 box holds each value
\* 1..9 exactly once; no cell of it is 0.
C1_SolutionIsCompleteSudoku ==
    ReturnedPair =>
        /\ IsCompleteSudoku(solution)
        /\ \A cell \in Cells : solution[cell[1]][cell[2]] # 0

\* a pair was returned after a search that had to backtrack
C1_Witness ==
    ReturnedPair /\ backtrack_count > 0 /\ IsCompleteSudoku(solution)

\* C2: while remove_cells runs and in the returned pair, each puzzle cell is
\* 0 or equal to the solution's cell at that position; a removal step only
\* turns non-zero cells into 0 and writes no other value.
C2_PuzzleDerivedFromSolution ==
    /\ []((pc = "remove" \/ InRemoval) =>
             \A cell \in Cells :
                 puzzle_board[cell[1]][cell[2]] \in {0, solution[cell[1]][cell[2]]})
    /\ [][RemoveStep =>
             \A cell \in Cells :
                 \/ puzzle_board'[cell[1]][cell[2]] = puzzle_board[cell[1]][cell[2]]
                 \/ /\ puzzle_board[cell[1]][cell[2]] # 0
                    /\ puzzle_board'[cell[1]][cell[2]] = 0]_vars

\* an intermediate step of the removal loop, with cells removed, cells still
\* to remove and a pick wasted on an empty cell
C2_Witness ==
    /\ pc = "remove_loop"
    /\ 0 < removed_count
    /\ removed_count < cells_to_remove
    /\ removed_count < attempts
    /\ NonZeroCount(puzzle_board) < TotalCells

\* C3 as claimed: for Easy, Medium, Hard and Expert the number of non-zero
\* cells of the returned puzzle lies within the difficulty's range of cells
\* to keep, for every sequence of cell picks.
C3_KeptAlwaysInRange ==
    (ReturnedPair /\ difficulty \in KnownNames) =>
        NonZeroCount(puzzle_board) \in TableRange(difficulty)

\* C3 amended: for Easy, Medium, Hard and Expert the number of non-zero cells
\* of the returned puzzle is never below the minimum of the difficulty's
\* range, and lies within the range whenever the removal loop reached its
\* target within the 200 attempts (no shortfall warning).
C3_KeptInRangeUnlessShortfall ==
    (ReturnedPair /\ difficulty \in KnownNames) =>
        /\ NonZeroCount(puzzle_board) >= SetMin(TableRange(difficulty))
        /\ ~warned => NonZeroCount(puzzle_board) \in TableRange(difficulty)

\* a pair returned for a known difficulty, the target reached although picks
\* were wasted
C3_Witness ==
    /\ ReturnedPair
    /\ difficulty \in KnownNames
    /\ ~warned
    /\ attempts > removed_count
    /\ NonZeroCount(puzzle_board) \in TableRange(difficulty)

\* C4: when the attempt budget is used up before removed_count reaches
\* cells_to_remove, generate still returns a pair, whose puzzle has strictly
\* more non-zero cells than the drawn cells_to_keep; in no run does the
\* puzzle have fewer non-zero cells than cells_to_keep.
C4_ShortfallStillReturnsPair ==
    /\ (pc = "done" /\ attempts = max_attempts /\ removed_count < cells_to_remove) =>
           /\ result = "pair"
           /\ NonZeroCount(puzzle_board) > cells_to_keep
    /\ InRemoval => NonZeroCount(puzzle_board) >= cells_to_keep

\* generate returned after the budget ran out short of the target
C4_Witness ==
    /\ ReturnedPair
    /\ attempts = max_attempts
    /\ removed_count < cells_to_remove
    /\ warned
    /\ NonZeroCount(puzzle_board) > cells_to_keep

\* C5: is_valid_position(grid, row, col, value) returns False if and only if
\* value occurs in row `row`, in column `col` or in the 3x3 box with top-left
\* corner ((row // 3) * 3, (col // 3) * 3); otherwise True.
C5_ValidIffAbsentFromPeers ==
    vcall.called =>
        (vcall.valid <=>
            ~ \E cell \in Peers(vcall.row, vcall.col) :
                  vcall.grid[cell[1]][cell[2]] = vcall.value)

\* a call rejected because of the box alone: value is neither in the row nor
\* in the column
C5_Witness ==
    /\ vcall.called
    /\ ~vcall.valid
    /\ \A k \in Idx : /\ vcall.grid[vcall.row][k] # vcall.value
                      /\ vcall.grid[k][vcall.col] # vcall.value

\* C6: can_place_number returns False whenever grid[row][col] # 0, whatever
\* the row, column and box hold; when grid[row][col] = 0 it returns what
\* is_valid_position returns. GameEngine.can_input returns the same.
C6_CanPlaceNeedsEmptyCell ==
    vcall.called =>
        /\ vcall.grid[vcall.row][vcall.col] # 0 => ~vcall.place
        /\ vcall.grid[vcall.row][vcall.col] = 0 =>
               (vcall.place <=>
                   ~ \E cell \in Peers(vcall.row, vcall.col) :
                         vcall.grid[cell[1]][cell[2]] = vcall.value)
        /\ vcall.grid[vcall.row][vcall.col] = 0 => (vcall.place <=> vcall.valid)
        /\ vcall.input <=> vcall.place

\* an occupied cell whose row, column and box would accept the value
C6_Witness ==
    /\ vcall.called
    /\ vcall.grid[vcall.row][vcall.col] # 0
    /\ vcall.valid
    /\ ~vcall.place
    /\ ~vcall.input

\* C7 as claimed: is_valid_position does not inspect the target cell: on two
\* grids that differ only at (row, col) it returns the same result.
C7_TargetCellNeverRead ==
    vcall.called =>
        \A x \in 0 .. GridSize, y \in 0 .. GridSize :
            vcall.variants[x] = vcall.variants[y]

\* C7 amended: is_valid_position reads the target cell only to compare it
\* with value: on two grids that differ only at (row, col), in neither of
\* which that cell holds value, it returns the same result; on a grid whose
\* target cell holds value it returns False.
C7_TargetCellOnlyComparedWithValue ==
    vcall.called =>
        /\ \A x \in (0 .. GridSize) \ {vcall.value},
              y \in (0 .. GridSize) \ {vcall.value} :
               vcall.variants[x] = vcall.variants[y]
        /\ ~vcall.variants[vcall.value]

\* the target cell holds another value and the call accepts, as it does on
\* the grid with the target cell empty
C7_Witness ==
    /\ vcall.called
    /\ vcall.grid[vcall.row][vcall.col] \notin {0, vcall.value}
    /\ vcall.valid
    /\ vcall.variants[0]

\* C8: "expert" is treated as "Expert": its cells_to_keep is drawn from the
\* Expert range 17..24, not from the Medium fallback range.
C8_LowercaseExpertIsExpert ==
    (InRemoval /\ difficulty = <<"e", "x", "p", "e", "r", "t">>) =>
        /\ level = "EXPERT"
        /\ cells_to_keep \in 17 .. 24
        /\ cells_to_remove = TotalCells - cells_to_keep

\* generate("expert") returned a puzzle with an Expert number of cells kept
C8_Witness ==
    /\ ReturnedPair
    /\ difficulty = <<"e", "x", "p", "e", "r", "t">>
    /\ ~warned
    /\ NonZeroCount(puzzle_board) \in 17 .. 24

\* C9: for a difficulty string that matches no level, generate neither raises
\* nor returns a failure: cells_to_keep is drawn from the Medium range 32..39
\* and a puzzle and solution are returned as for Medium.
C9_UnknownDifficultyIsMedium ==
    difficulty = <<"N", "i", "g", "h", "t", "m", "a", "r", "e">> =>
        /\ InRemoval => (level = "MEDIUM" /\ cells_to_keep \in 32 .. 39)
        /\ pc = "done" =>
               /\ result = "pair"
               /\ IsCompleteSudoku(solution)
               /\ NonZeroCount(puzzle_board) >= 32
               /\ ~warned => NonZeroCount(puzzle_board) \in 32 .. 39

\* generate("Nightmare") returned a puzzle with a Medium number of cells kept
C9_Witness ==
    /\ ReturnedPair
    /\ difficulty = <<"N", "i", "g", "h", "t", "m", "a", "r", "e">>
    /\ level = "MEDIUM"
    /\ ~warned
    /\ NonZeroCount(puzzle_board) \in 32 .. 39

\* the board has no empty cell
BoardFull == \A cell \in Cells : board[cell[1]][cell[2]] # 0

\* C10: started on the all-zero grid, _solve_board terminates for every
\* choice of candidate shuffles and returns True with a completely filled
\* grid; generate never takes the failure path.
C10_SolveTerminatesWithFullBoard ==
    /\ (pc = "enter" /\ stack = << >> /\ board = EmptyBoard)
           ~> (pc = "after_solve" /\ solve_result /\ BoardFull)
    /\ [](pc = "after_solve" => (solve_result /\ BoardFull))
    /\ [](result # "null")

\* the outermost _solve_board returned True on a full board after backtracking
C10_Witness ==
    /\ pc = "after_solve"
    /\ solve_result
    /\ BoardFull
    /\ backtrack_count > 0


C17_RemovalStopsAtTargetOrBudget ==
    /\ (pc = "remove_loop") ~> (pc = "done")
    /\ [](InRemoval => /\ attempts <= max_attempts
                       /\ cells_to_remove = TotalCells - cells_to_keep)
    /\ [][(pc = "remove_loop" /\ attempts' # attempts) =>
              /\ removed_count < cells_to_remove
              /\ attempts < max_attempts
              /\ attempts' = attempts + 1]_vars
    /\ [][(pc = "remove_loop" /\ pc' # "remove_loop") =>
              (removed_count = cells_to_remove \/ attempts = max_attempts)]_vars
    /\ [][(pc = "remove_loop" /\ (removed_count = cells_to_remove
                                   \/ attempts = max_attempts)) =>
              (pc' = "done" /\ attempts' = attempts)]_vars

\* the loop was left at the target, before the attempts ran out, after picks
\* that removed nothing
C17_Witness ==
    /\ ReturnedPair
    /\ removed_count = cells_to_remove
    /\ removed_count < attempts
    /\ attempts < max_attempts

\* ---------------------------------------------------------------------------
\* C18: a pick of a cell that already holds 0 changes neither the puzzle nor
\* removed_count, and uses up one attempt
C18_WastedPickOnlyCostsAnAttempt ==
    [][(/\ pc = "remove_loop"
        /\ pc' = "remove_loop"
        /\ puzzle_board[PickCell(seed, attempts)[1]][PickCell(seed, attempts)[2]] = 0) =>
           /\ puzzle_board' = puzzle_board
           /\ removed_count' = removed_count
           /\ attempts' = attempts + 1
           /\ max_attempts - attempts' < max_attempts - attempts]_vars

\* the last pick fell on the cell the pick before it had emptied
C18_Witness ==
    /\ pc = "remove_loop"
    /\ attempts >= 2
    /\ PickCell(seed, attempts - 1) = PickCell(seed, attempts - 2)
    /\ puzzle_board[PickCell(seed, attempts - 1)[1]][PickCell(seed, attempts - 1)[2]] = 0
    /\ removed_count < attempts

\* ---------------------------------------------------------------------------
\* C19: throughout remove_cells on a full grid, removed_count is the number
\* of zero cells of the board, removed_count <= attempts <= 200 and
\* removed_count <= cells_to_remove
C19_RemovalCounters ==
    InRemoval =>
        /\ removed_count = TotalCells - NonZeroCount(puzzle_board)
        /\ removed_count <= attempts
        /\ attempts <= max_attempts
        /\ removed_count <= cells_to_remove

\* in the middle of the loop, with removals and wasted picks behind it
C19_Witness ==
    /\ pc = "remove_loop"
    /\ NonZeroCount(solution) = TotalCells
    /\ 0 < removed_count
    /\ removed_count < attempts
    /\ attempts < max_attempts
    /\ removed_count < cells_to_remove
    /\ NonZeroCount(puzzle_board) = TotalCells - removed_count

\* ---------------------------------------------------------------------------
\* C20: at every step of the backtracking search no value 1..9 occurs twice
\* in a row, a column or a 3x3 box of the scratch grid
ConflictFree(g) ==
    \A cell \in Cells :
        g[cell[1]][cell[2]] # 0 =>
            \A peer \in Peers(cell[1], cell[2]) \ {cell} :
                g[peer[1]][peer[2]] # g[cell[1]][cell[2]]

C20_SearchGridConflictFree ==
    pc \in {"enter", "loop", "after_solve"} => ConflictFree(board)

\* the search has placed values and has backtracked at least once
C20_Witness ==
    /\ pc = "loop"
    /\ backtrack_count > 0
    /\ NonZeroCount(board) > GridSize
    /\ NonZeroCount(board) < TotalCells
    /\ ConflictFree(board)


\* ---------------------------------------------------------------------------
\* C11: when _solve_board returns False, generate returns (None, None): no
\* copy is made, remove_cells does not run and self.solution keeps what it
\* held; cell removal runs only after a successful search, and a solution
\* that is returned is a complete grid obeying the rules
C11_FailureReturnsNullPair ==
    /\ (pc = "done" /\ ~solve_result) =>
           /\ result = "null"
           /\ returned[Len(returned)].status = "null"
           /\ manager.board = 0 /\ manager.solution = 0
           /\ solution = NoneBoard /\ refs.solution = 0
           /\ puzzle_board = NoneBoard /\ refs.puzzle = 0
           /\ allocated = 2
           /\ attempts = 0 /\ removed_count = 0 /\ ~warned
    /\ (pc \in {"remove", "remove_loop"}) => solve_result
    /\ (pc = "done" /\ result = "pair") =>
           /\ solve_result
           /\ IsCompleteSudoku(returned[Len(returned)].solution)

\* the search backtracked and then failed, and generate has returned
C11_Witness ==
    /\ pc = "done"
    /\ ~solve_result
    /\ result = "null"
    /\ board_validator = "BlocksCell"
    /\ backtrack_count > 0
    /\ returned[Len(returned)].status = "null"


\* ---------------------------------------------------------------------------
\* C12: two calls of generate given the same difficulty and the same random
\* draws (the same seed, at the same position of its draw sequence) return
\* the same solution and the same puzzle
C12_SameDrawsSameResult ==
    \A i, j \in DOMAIN returned :
        (/\ returned[i].status = "pair"
         /\ returned[j].status = "pair"
         /\ returned[i].difficulty = returned[j].difficulty
         /\ returned[i].random_state = returned[j].random_state
         /\ returned[i].first_draw = returned[j].first_draw) =>
            /\ returned[i].solution = returned[j].solution
            /\ returned[i].puzzle = returned[j].puzzle

\* two finished calls with the same difficulty, seed and draw position, whose
\* puzzles have cells removed
C12_Witness ==
    /\ Len(returned) = 2
    /\ returned[1].status = "pair"
    /\ returned[2].status = "pair"
    /\ returned[1].difficulty = returned[2].difficulty
    /\ returned[1].random_state = returned[2].random_state
    /\ returned[1].random_state \in Seeds
    /\ returned[1].first_draw = returned[2].first_draw
    /\ returned[1].solution = returned[2].solution
    /\ returned[1].puzzle = returned[2].puzzle
    /\ NonZeroCount(returned[2].puzzle) < TotalCells


\* ---------------------------------------------------------------------------
\* C13: every call of generate starts its search on a scratch grid of zeros
\* with backtrack_count 0, whatever the calls before it left in the
\* generator; so a later call returns what the first call on the new
\* generator returns for the same difficulty and the same random draws
C13_EveryCallStartsClean ==
    /\ [][(pc \in {"idle", "done"} /\ pc' = "enter") =>
              /\ board' = EmptyBoard
              /\ backtrack_count' = 0
              /\ stack' = << >>]_vars
    /\ [](\A n \in DOMAIN returned :
              (/\ n > 1
               /\ returned[n].status = "pair"
               /\ returned[n].difficulty = returned[1].difficulty
               /\ returned[n].random_state = returned[1].random_state
               /\ returned[n].first_draw = returned[1].first_draw) =>
                  /\ returned[n].solution = returned[1].solution
                  /\ returned[n].puzzle = returned[1].puzzle)

\* the second call has just started: the first call's solution is still in
\* self.solution and the scratch grid is new
C13_Witness ==
    /\ Len(returned) = 2
    /\ returned[1].status = "pair"
    /\ returned[2].status = "running"
    /\ pc = "enter"
    /\ stack = << >>
    /\ calls = 2
    /\ solution = returned[1].solution
    /\ NonZeroCount(solution) = TotalCells
    /\ board = EmptyBoard
    /\ backtrack_count = 0


\* ---------------------------------------------------------------------------
\* C14: the grids a call of generate returns are objects of their own: the
\* solution is not changed by cell removal, by the player's writes through
\* BoardManager.set_value or by a later call of generate, and a returned
\* puzzle is changed by nothing but set_value on the board the manager holds
C14_ReturnedGridsAreSnapshots ==
    /\ [](\A i \in DOMAIN returned :
              returned[i].status = "pair" =>
                  /\ returned[i].solution_now = returned[i].solution
                  /\ returned[i].puzzle_id # returned[i].solution_id
                  /\ \A j \in DOMAIN returned :
                         (j # i /\ returned[j].status = "pair") =>
                             {returned[i].puzzle_id, returned[i].solution_id}
                                 \cap {returned[j].puzzle_id,
                                       returned[j].solution_id} = {})
    /\ [][pc = "remove_loop" => solution' = solution]_vars
    /\ [][\A i \in DOMAIN returned :
              (/\ returned[i].status = "pair"
               /\ returned'[i].puzzle_now # returned[i].puzzle_now) =>
                  /\ pc = "done" /\ pc' = "done"
                  /\ manager'.writes = manager.writes + 1
                  /\ manager.board = returned[i].puzzle_id]_vars

\* the player wrote into the first puzzle, then a second call returned
\* another solution, and the first solution is as it was returned
C14_Witness ==
    /\ Len(returned) = 2
    /\ returned[1].status = "pair"
    /\ returned[2].status = "pair"
    /\ manager.writes = 1
    /\ returned[1].puzzle_now # returned[1].puzzle
    /\ returned[2].solution # returned[1].solution
    /\ returned[1].solution_now = returned[1].solution
    /\ returned[2].puzzle_now = returned[2].puzzle


\* ---------------------------------------------------------------------------
\* C15: two threads calling generate on one generator without
\* synchronisation race on the scratch grid: a call can return a solution
\* holding values the other thread placed.  With a generator per thread, or
\* with no call starting while another is running, every call returns a
\* complete valid solution all of whose values it placed itself, and a
\* puzzle made from that solution
BuiltBySelf(e) ==
    \A cell \in Cells : e.solution_writers[cell[1]][cell[2]] = e.thread

C15_SynchronisedCallsDoNotRace ==
    sync # "none" =>
        \A i \in DOMAIN returned :
            returned[i].status # "running" =>
                /\ returned[i].status = "pair"
                /\ IsCompleteSudoku(returned[i].solution)
                /\ BuiltBySelf(returned[i])
                /\ \A cell \in Cells :
                       returned[i].puzzle[cell[1]][cell[2]] \in
                           {0, returned[i].solution[cell[1]][cell[2]]}

\* without synchronisation a thread was interrupted inside generate and a
\* call has returned a solution with values placed by the other thread
C15_Witness ==
    /\ sync = "none"
    /\ preemptions > 0
    /\ \E i \in DOMAIN returned :
           /\ returned[i].status = "pair"
           /\ ~BuiltBySelf(returned[i])


\* ---------------------------------------------------------------------------
\* C21: during the search the non-zero cells of the scratch grid are the
\* first cells in row-major order; the active invocations of _solve_board
\* stand, in order, on the first cells of that sequence, the innermost on the
\* first empty cell, and there are never more than 81 of them
CellAt(k) == <<k \div GridSize, k % GridSize>>

C21_PlacementsFormRowMajorPrefix ==
    pc \in {"enter", "loop", "after_solve"} =>
        LET n == NonZeroCount(board)
        IN /\ \A k \in 0 .. (TotalCells - 1) :
                  (board[CellAt(k)[1]][CellAt(k)[2]] # 0) <=> (k < n)
           /\ Len(stack) <= TotalCells
           /\ \A k \in DOMAIN stack :
                  <<stack[k].row, stack[k].col>> = CellAt(k - 1)
           /\ pc = "loop" => /\ Len(stack) = n + 1
                             /\ <<stack[Len(stack)].row, stack[Len(stack)].col>>
                                    = CellAt(n)
           /\ pc = "enter" => Len(stack) = n

\* the search stands on the last cell, 81 invocations deep, after backtracking
C21_Witness ==
    /\ pc = "loop"
    /\ Len(stack) = TotalCells
    /\ NonZeroCount(board) = TotalCells - 1
    /\ board[GridSize - 1][GridSize - 1] = 0
    /\ backtrack_count > 0


\* ---------------------------------------------------------------------------
\* C22: when an invocation of _solve_board returns False the scratch grid is
\* cell for cell the grid it found at its entry, and backtrack_count has
\* grown since then by the number of placements made since then, all of them
\* undone; the caller's undo adds one to backtrack_count and leaves the grid
\* the caller found at its own entry; throughout the search backtrack_count
\* exceeds its starting value by the number of placements no longer standing;
\* two calls that make the same draws produce the same grids whatever value
\* backtrack_count started from
ReturnsFalse == pc = "loop" /\ Len(stack') < Len(stack)

SameDraws(i, j) ==
    /\ returned[i].status = "pair"
    /\ returned[j].status = "pair"
    /\ returned[i].random_state = returned[j].random_state
    /\ returned[i].first_draw = returned[j].first_draw

C22_ReturnFalseRestoresGrid ==
    /\ [][ReturnsFalse =>
            LET e == trace.entries[Len(stack)]
            IN /\ board = e.board
               /\ backtrack_count - e.backtrack_count
                      = trace.placements - e.placements
               /\ stack' # << >> =>
                      /\ backtrack_count' = backtrack_count + 1
                      /\ board' = trace.entries[Len(stack')].board
               /\ stack' = << >> =>
                      /\ backtrack_count' = backtrack_count
                      /\ board' = board]_vars
    /\ [](pc \in {"enter", "loop", "after_solve"} =>
            backtrack_count - trace.starts[Len(trace.starts)]
                = trace.placements - NonZeroCount(board))
    /\ [](\A i, j \in DOMAIN returned :
            SameDraws(i, j) =>
                /\ returned[i].solution = returned[j].solution
                /\ returned[i].puzzle = returned[j].puzzle)

\* two finished calls made the same draws, backtrack_count started from
\* different values, and invocations of the second call returned False
C22_Witness ==
    /\ pc = "done"
    /\ Len(returned) = 2
    /\ SameDraws(1, 2)
    /\ trace.starts[1] # trace.starts[2]
    /\ backtrack_count > trace.starts[2]
    /\ trace.placements > NonZeroCount(board)


\* ---------------------------------------------------------------------------
\* C23: whatever calls of start_game, accumulate_wrong_moves and
\* accumulate_moves were made on the controller, is_game_over() is True
\* exactly when the wrong-moves counter is at least MAX_WRONG_MOVES (3)
C23_GameOverIffThreeWrongMoves ==
    ctl._is_game_over <=> (ctl._wrong_moves_counter >= 3)

\* wrong moves were accumulated up to the end of a started game
C23_Witness ==
    /\ reply.op = "accumulate_wrong_moves"
    /\ reply.arg > 0
    /\ app.games >= 1
    /\ ctl.pc = "idle"
    /\ ctl._wrong_moves_counter >= 3
    /\ ctl._is_game_over

\* ---------------------------------------------------------------------------
\* C24: accumulate_wrong_moves with a negative argument and accumulate_moves
\* with a negative or zero argument change nothing of the controller, its
\* board manager or the metrics, and return the current counter; outside
\* start_game neither counter ever decreases
C24_InvalidAmountsAreIgnored ==
    /\ [][(\E n \in CallArguments : n < 0 /\ AccumulateWrongMoves(n)) =>
            /\ ctl' = ctl
            /\ bm' = bm
            /\ metrics' = metrics
            /\ reply'.value = ctl._wrong_moves_counter]_vars
    /\ [][(\E n \in CallArguments : n <= 0 /\ AccumulateMoves(n)) =>
            /\ ctl' = ctl
            /\ bm' = bm
            /\ metrics' = metrics
            /\ reply'.value = ctl._moves_counter]_vars
    /\ [][ctl'.pc # "generate" =>
            /\ ctl'._moves_counter >= ctl._moves_counter
            /\ ctl'._wrong_moves_counter >= ctl._wrong_moves_counter]_vars

\* a negative amount of wrong moves was passed to a controller that had
\* counted moves of both kinds
C24_Witness ==
    /\ reply.op = "accumulate_wrong_moves"
    /\ reply.arg < 0
    /\ ctl._wrong_moves_counter > 0
    /\ ctl._moves_counter > 0
    /\ reply.value = ctl._wrong_moves_counter

\* ---------------------------------------------------------------------------
\* C25: start_game has reset both counters, the game-over flag, both notes
\* modes and the timer when it asks for the new board and when it hands the
\* board to the UI; the reset itself touches neither the board manager nor
\* the UI
C25_StartGameResetsBeforeGenerating ==
    /\ [](ctl.pc \in {"generate", "ui"} =>
            /\ ctl._moves_counter = 0
            /\ ctl._wrong_moves_counter = 0
            /\ ~ctl._is_game_over
            /\ ~ctl._notes_mode
            /\ ~ctl._auto_notes_mode
            /\ ~ctl._is_running)
    /\ [][(ctl.pc = "idle" /\ ctl'.pc = "generate") =>
            (bm' = bm /\ ui' = ui)]_vars

\* start_game was called on a game that was over (its exit is recorded),
\* with the timer of that game still shown as running, and has not generated
\* the new board yet
C25_Witness ==
    /\ ctl.pc = "generate"
    /\ reply.op = "start_game"
    /\ app.games = 1
    /\ metrics.service
    /\ ctl._current_game_id \notin metrics._game_start_times
    /\ bm._board = generated_puzzle
    /\ ui._timer_running


\* C26: once the game is over (the wrong-moves counter reached 3 and
\* UIManager.on_game_over ran), no key press and no number-panel input
\* changes the working board, the moves counter or the wrong-moves counter
\* until the next start_game, and the wrong-moves counter never exceeds
\* MAX_WRONG_MOVES through the input of the player.
\* The code does not keep it: the <Key> binding of the root window and the
\* selection outlive on_game_over, and _on_number_click never looks at
\* is_game_over.
C26_GameOverFreezesTheGame ==
    /\ [][(MainLoopIdle /\ ui.game_over_shown /\ ctl'.pc = "idle")
            => /\ bm'._board = bm._board
               /\ ctl'._moves_counter = ctl._moves_counter
               /\ ctl'._wrong_moves_counter = ctl._wrong_moves_counter]_vars
    /\ [](ctl._wrong_moves_counter <= MAX_WRONG_MOVES)

\* C27: after start_game and any sequence of digit key presses, number-panel
\* clicks and Delete/BackSpace presses on selected cells, the counts kept by
\* BoardManager equal, for every value 1..9, the number of cells of the
\* working board that hold the value; no count is kept for the value 0 and
\* no count is negative.
\* The code does not keep it: _on_number_click writes the board without
\* place_number, a digit typed twice into a cell is counted twice, and
\* Delete on an empty cell has unplace_number(0) create a count of -1 for 0.
C27_CountsMatchTheBoard ==
    MainLoopIdle =>
        /\ DOMAIN bm._counts = 1 .. GridSize
        /\ \A n \in DOMAIN bm._counts : bm._counts[n] >= 0
        /\ \A n \in 1 .. GridSize :
               bm._counts[n] = count_numbers(bm._board)[n]

\* every non-zero cell of the working board of b equals the cell of the
\* solution at its position
BoardMatchesSolution(b) ==
    \A r \in Idx, c \in Idx :
        b._board[r][c] # 0 => b._board[r][c] = b._solution[r][c]

\* the step is an input of the player that the controller rejected
InputRejected ==
    /\ MainLoopIdle
    /\ ctl'.pc = "idle"
    /\ ctl'._wrong_moves_counter > ctl._wrong_moves_counter

C29_GaugeCountsRecordedGames ==
    /\ metrics.active_games >= 0
    /\ metrics.active_games = Cardinality(metrics._game_start_times)

\* the length of the run of equal outcomes that ends the sequence
RECURSIVE RunLength(_)
RunLength(outcomes) ==
    IF Len(outcomes) <= 1 THEN Len(outcomes)
    ELSE IF outcomes[Len(outcomes)] = outcomes[Len(outcomes) - 1]
         THEN 1 + RunLength(SubSeq(outcomes, 1, Len(outcomes) - 1))
         ELSE 1

\* the streak a sequence of outcomes stands for: the length of the current
\* run of wins, or minus the length of the current run of losses
StreakOf(outcomes) ==
    IF outcomes = << >> THEN 0
    ELSE IF outcomes[Len(outcomes)] THEN RunLength(outcomes)
         ELSE 0 - RunLength(outcomes)

\* C30: starting from the default stats, after any sequence of update_stats
\* calls for a difficulty: every call raises exactly one of games_won and
\* games_lost by 1; current_streak is the length of the current run of wins,
\* or minus the length of the current run of losses (a win after losses
\* makes it 1, a loss after wins -1); and longest_loss_streak <=
\* current_streak <= longest_win_streak with longest_loss_streak <= 0 <=
\* longest_win_streak
C30_StreaksFollowTheOutcomes ==
    /\ [][\A d \in StatDifficulties :
             Len(results'[d]) = Len(results[d]) + 1 =>
                \/ /\ stats'[d].games_won = stats[d].games_won + 1
                   /\ stats'[d].games_lost = stats[d].games_lost
                \/ /\ stats'[d].games_won = stats[d].games_won
                   /\ stats'[d].games_lost = stats[d].games_lost + 1]_vars
    /\ [][\A d \in StatDifficulties :
             (Len(results'[d]) = Len(results[d]) + 1 /\ results[d] # << >>
              /\ results'[d][Len(results'[d])] # results[d][Len(results[d])])
                => stats'[d].current_streak =
                      IF results'[d][Len(results'[d])] THEN 1 ELSE 0 - 1]_vars
    /\ [](\A d \in StatDifficulties :
             /\ stats[d].current_streak = StreakOf(results[d])
             /\ stats[d].longest_loss_streak <= stats[d].current_streak
             /\ stats[d].current_streak <= stats[d].longest_win_streak
             /\ stats[d].longest_loss_streak <= 0
             /\ 0 <= stats[d].longest_win_streak)

\* two losses and then a win for Easy: the streak is 1 and the longest loss
\* streak stays -2; a win for Hard, counted apart
C30_Witness ==
    /\ results[DifficultyValue["EASY"]] = <<FALSE, FALSE, TRUE>>
    /\ stats[DifficultyValue["EASY"]].current_streak = 1
    /\ stats[DifficultyValue["EASY"]].longest_loss_streak = 0 - 2
    /\ stats[DifficultyValue["EASY"]].longest_win_streak = 1
    /\ stats[DifficultyValue["EASY"]].games_lost = 2
    /\ results[DifficultyValue["HARD"]] = <<TRUE>>
    /\ stats[DifficultyValue["HARD"]].current_streak = 1

====
